---------------------------- MODULE Spec2Model ----------------------------
(***************************************************************************)
(* Model of the sign-up tracker's core (src/src/App.jsx): the tiered rate  *)
(* resolver mdtgRateOf, the prepayment resolver mdtgPrepayOf, the event    *)
(* aggregator calcStats, the progress bar, the store with its event and    *)
(* participant operations and the import of a backup, the copy of the      *)
(* store kept in localStorage, and the CSV export with safeCSV.            *)
(*                                                                         *)
(* Representation of JavaScript numbers.  Amounts (budgets, tier and band  *)
(* boundaries) are integers counting thousandths of one RMB, so 300 RMB is *)
(* 300000 and 0.005 RMB is 5.  Rates count tenths (6.5 is 65) and ratios   *)
(* count hundredths (0.3 is 30, 1.0 is 100).  A product budget * ratio     *)
(* therefore counts 1/100000 RMB.  Arithmetic is exact: the binary         *)
(* rounding error of IEEE doubles is not modelled, except in the sum of    *)
(* the budgets where calcStats is studied as a function (SpecCalc) and in  *)
(* the amounts of the CSV export (SpecCSV).  NaN                           *)
(* is a separate value of the number type.  An optional value (null or a   *)
(* value) is the empty or the one-element sequence.                        *)
(***************************************************************************)
EXTENDS Integers, Sequences, FiniteSets

VARIABLES
  call,     \* the last call made: its arguments and what it returned
  data,     \* the store held by App: [events, selectedEventId]
  stats,    \* EventDetail's memoised calcStats(evt) of the event shown
  nextId,   \* the number of ids genId has handed out
  storage   \* localStorage: the item kept under STORAGE_KEY, and whether
            \* reading and writing fail

vars == <<call, data, stats, nextId, storage>>

(***************************************************************************)
(* JavaScript values and the coercion  Number(x) || 0                      *)
(***************************************************************************)
RMB(x) == x * 1000

NaN == [nan |-> TRUE, v |-> 0]
Num(n) == [nan |-> FALSE, v |-> n]

JSUndefined == [t |-> "undefined", num |-> NaN, str |-> <<>>]
JSNull == [t |-> "null", num |-> NaN, str |-> <<>>]
JSNumber(n) == [t |-> "number", num |-> Num(n), str |-> <<>>]
JSNaN == [t |-> "number", num |-> NaN, str |-> <<>>]
JSString(s) == [t |-> "string", num |-> NaN, str |-> s]

Digits == <<"0", "1", "2", "3", "4", "5", "6", "7", "8", "9">>
IsDigit(c) == \E i \in 1..10 : Digits[i] = c
DigitVal(c) == (CHOOSE i \in 1..10 : Digits[i] = c) - 1
AllDigits(s) == \A i \in 1..Len(s) : IsDigit(s[i])

RECURSIVE DigitsVal(_)
DigitsVal(s) ==
  IF s = <<>> THEN 0
  ELSE DigitsVal(SubSeq(s, 1, Len(s) - 1)) * 10 + DigitVal(s[Len(s)])

\* The fraction digits as thousandths: "5" is 500, "05" is 50, "005" is 5.
FracVal(s) ==
  DigitsVal(s) * (CASE Len(s) = 0 -> 0 [] Len(s) = 1 -> 100
                    [] Len(s) = 2 -> 10 [] OTHER -> 1)

RECURSIVE TrimLeft(_)
TrimLeft(s) ==
  IF s # <<>> /\ s[1] = " " THEN TrimLeft(Tail(s)) ELSE s

RECURSIVE TrimRight(_)
TrimRight(s) ==
  IF s # <<>> /\ s[Len(s)] = " "
  THEN TrimRight(SubSeq(s, 1, Len(s) - 1)) ELSE s

Trim(s) == TrimRight(TrimLeft(s))

\* An unsigned decimal literal: digits, digits.digits, digits. or .digits
\* (at most three fraction digits are representable here).
DecimalLiteral(s) ==
  LET dots == {i \in 1..Len(s) : s[i] = "."}
      dot == IF dots = {} THEN Len(s) + 1
             ELSE CHOOSE i \in dots : \A j \in dots : i <= j
      ip == SubSeq(s, 1, dot - 1)
      fp == SubSeq(s, dot + 1, Len(s))
  IN  IF AllDigits(ip) /\ AllDigits(fp) /\ Len(ip) + Len(fp) > 0
         /\ Len(fp) <= 3
      THEN Num(DigitsVal(ip) * 1000 + FracVal(fp))
      ELSE NaN

SignedLiteral(s) ==
  IF s # <<>> /\ s[1] \in {"-", "+"}
  THEN LET m == DecimalLiteral(Tail(s))
       IN  IF m.nan THEN NaN
           ELSE Num(IF s[1] = "-" THEN 0 - m.v ELSE m.v)
  ELSE DecimalLiteral(s)

\* parseFloat: the longest numeric prefix decides, the rest is ignored.
ParseFloatOf(s) ==
  LET t == TrimLeft(s)
      ks == {k \in 1..Len(t) : ~SignedLiteral(SubSeq(t, 1, k)).nan}
  IN  IF ks = {} THEN NaN
      ELSE SignedLiteral(SubSeq(t, 1, CHOOSE k \in ks : \A j \in ks : j <= k))

\* a variant of StringToNumber: parseFloat in place of Number
StringToNumberParseFloat(s) == ParseFloatOf(s)

\* Number(string): white space is trimmed, the empty string is 0, and the
\* whole of what is left must be a numeric literal.
StringToNumber(s) ==
  IF Trim(s) = <<>> THEN Num(0) ELSE SignedLiteral(Trim(s))

\* Number(x)
ToNumber(x) ==
  CASE x.t = "undefined" -> NaN
    [] x.t = "null" -> Num(0)
    [] x.t = "number" -> x.num
    [] OTHER -> StringToNumber(x.str)

\* num || 0 : NaN and 0 are falsy
OrZero(num) == IF num.nan \/ num.v = 0 THEN 0 ELSE num.v

\* Number(x) || 0
NumberOr0(x) == OrZero(ToNumber(x))

(***************************************************************************)
(* Rules                                                                   *)
(***************************************************************************)
Tier(mn, mx, r) == [min |-> mn, max |-> mx, rate |-> r]

DefaultTiers ==
  << Tier(0, <<RMB(300)>>, 65),
     Tier(RMB(300), <<RMB(500)>>, 63),
     Tier(RMB(500), <<>>, 60) >>

DefaultDepositPolicy ==
  [ small |-> [upTo |-> RMB(300), ratio |-> 30],
    mid |-> [from |-> RMB(300), to |-> RMB(500), ratio |-> 50],
    large |-> [from |-> RMB(500), ratio |-> 100] ]

DEFAULT_MDTG_RULES ==
  [ tiers |-> DefaultTiers,
    depositPolicy |-> DefaultDepositPolicy,
    priorityWindowMin |-> 30 ]

DefaultRate == 60

(***************************************************************************)
(* mdtgRateOf                                                              *)
(***************************************************************************)
\* a variant of TierMatches: the upper bound of a tier taken as inclusive
TierMatchesInclusive(n, t) ==
  IF t.max = <<>> THEN n >= t.min
  ELSE n >= t.min /\ n <= t.max[1]

\* the test of one tier inside the loop
TierMatches(n, t) ==
  IF t.max = <<>> THEN n >= t.min
  ELSE n >= t.min /\ n < t.max[1]

\* a variant of LastRate: the default rate whatever the tiers
LastRateDefaultOnly(tiers) == 60

\* rules.tiers.at(-1)?.rate ?? 6.0
LastRate(tiers) ==
  IF tiers = <<>> THEN DefaultRate ELSE tiers[Len(tiers)].rate

\* a variant of ScanTiers: the last matching tier wins
ScanTiersLastMatch(n, tiers, i) ==
  LET m == {k \in i..Len(tiers) : TierMatches(n, tiers[k])}
  IN  IF m = {} THEN LastRate(tiers)
      ELSE tiers[CHOOSE k \in m : \A j \in m : j <= k].rate

RECURSIVE ScanTiers(_, _, _)
ScanTiers(n, tiers, i) ==
  IF i > Len(tiers) THEN LastRate(tiers)
  ELSE IF TierMatches(n, tiers[i]) THEN tiers[i].rate
  ELSE ScanTiers(n, tiers, i + 1)

mdtgRateOf(budgetRMB, rules) ==
  LET n == NumberOr0(budgetRMB)
  IN  ScanTiers(n, rules.tiers, 1)

(***************************************************************************)
(* mdtgPrepayOf                                                            *)
(***************************************************************************)
\* a variant of mdtgPrepayOf: the small band's bound taken as inclusive
mdtgPrepayOfInclusive(budgetRMB, rules) ==
  LET n == NumberOr0(budgetRMB)
      dp == rules.depositPolicy
  IN  IF n <= dp.small.upTo
      THEN [type |-> "deposit", ratio |-> dp.small.ratio]
      ELSE IF n >= dp.mid.from /\ n < dp.mid.to
      THEN [type |-> "deposit", ratio |-> dp.mid.ratio]
      ELSE [type |-> "full", ratio |-> 100]

\* a variant of mdtgPrepayOf: the mid band tested before the small band
mdtgPrepayOfMidFirst(budgetRMB, rules) ==
  LET n == NumberOr0(budgetRMB)
      dp == rules.depositPolicy
  IN  IF n >= dp.mid.from /\ n < dp.mid.to
      THEN [type |-> "deposit", ratio |-> dp.mid.ratio]
      ELSE IF n < dp.small.upTo
      THEN [type |-> "deposit", ratio |-> dp.small.ratio]
      ELSE [type |-> "full", ratio |-> 100]

mdtgPrepayOf(budgetRMB, rules) ==
  LET n == NumberOr0(budgetRMB)
      dp == rules.depositPolicy
  IN  IF n < dp.small.upTo
      THEN [type |-> "deposit", ratio |-> dp.small.ratio]
      ELSE IF n >= dp.mid.from /\ n < dp.mid.to
      THEN [type |-> "deposit", ratio |-> dp.mid.ratio]
      ELSE [type |-> "full", ratio |-> 100]

(***************************************************************************)
(* calcStats                                                               *)
(***************************************************************************)
\* Math.round(x / d) for d > 0: the nearest integer, a tie going up
MathRound(x, d) == (2 * x + d) \div (2 * d)

\* evt.participants.reduce((a, p) => a + (Number(p.reserveRMB) || 0), 0)
\* a variant of ReduceReserve: only the active participants are summed
RECURSIVE ReduceReserveActiveOnly(_, _, _)
ReduceReserveActiveOnly(ps, i, a) ==
  IF i > Len(ps) THEN a
  ELSE ReduceReserveActiveOnly(ps, i + 1,
         a + (IF ps[i].status = "active"
              THEN NumberOr0(JSNumber(ps[i].reserveRMB)) ELSE 0))

RECURSIVE ReduceReserve(_, _, _)
ReduceReserve(ps, i, a) ==
  IF i > Len(ps) THEN a
  ELSE ReduceReserve(ps, i + 1, a + NumberOr0(JSNumber(ps[i].reserveRMB)))

\* a variant of PrepayStep: the deposit flag is not consulted
PrepayStepAnyFlag(a, p, rules) ==
  a + OrZero(Num(p.reserveRMB))
        * mdtgPrepayOf(JSNumber(p.reserveRMB), rules).ratio

\* a variant of PrepayStep: the participants not marked as paid are the ones
\* counted
PrepayStepUnpaid(a, p, rules) ==
  LET pre == mdtgPrepayOf(JSNumber(p.reserveRMB), rules)
      need == OrZero(Num(p.reserveRMB)) * pre.ratio
  IN  a + (IF p.depositPaid THEN 0 ELSE need)

\* the body of the second reduce, for one participant
PrepayStep(a, p, rules) ==
  LET pre == mdtgPrepayOf(JSNumber(p.reserveRMB), rules)
      need == OrZero(Num(p.reserveRMB)) * pre.ratio
  IN  a + (IF p.depositPaid THEN need ELSE 0)

RECURSIVE ReducePrepay(_, _, _, _)
ReducePrepay(ps, rules, i, a) ==
  IF i > Len(ps) THEN a
  ELSE ReducePrepay(ps, rules, i + 1, PrepayStep(a, ps[i], rules))

\* a variant of IsActive: every participant not cancelled counts as active
IsActiveNotCancelled(p) == p.status # "cancelled"

IsActive(p) == p.status = "active"

\* totalReserveRMB and collectedPrepayRMB count hundredths of one RMB.
calcStats(evt) ==
  LET activeList == SelectSeq(evt.participants, IsActive)
  IN  [ count |-> Len(evt.participants),
        activeCount |-> Len(activeList),
        totalReserveRMB |->
          MathRound(ReduceReserve(evt.participants, 1, 0), 10),
        collectedPrepayRMB |->
          MathRound(ReducePrepay(evt.participants, evt.rules.mdtg, 1, 0),
                    1000) ]

(***************************************************************************)
(* IEEE 754 doubles: the sum of the budgets as the engine computes it      *)
(*                                                                         *)
(* A natural number of any size is the sequence of its digits to the base  *)
(* 2^15, the lowest first and the highest not 0.  A double that is not     *)
(* negative is [m, e], standing for m * 2^e, with m of at most 53 bits     *)
(* (or 2^53 itself).  Every operation computes the exact result and rounds *)
(* it once to 53 bits, ties to even, as the hardware does; the numbers met *)
(* here are far from overflow and from the subnormal range.                *)
(***************************************************************************)
Limb == 32768
Precision == 53

RECURSIVE BNorm(_)
BNorm(a) ==
  IF a # <<>> /\ a[Len(a)] = 0 THEN BNorm(SubSeq(a, 1, Len(a) - 1)) ELSE a

BFromInt(n) == BNorm(<<n % Limb, (n \div Limb) % Limb, n \div (Limb * Limb)>>)

RECURSIVE BToInt(_)
BToInt(a) == IF a = <<>> THEN 0 ELSE a[1] + Limb * BToInt(Tail(a))

RECURSIVE BAddCarry(_, _, _)
BAddCarry(a, b, c) ==
  IF a = <<>> /\ b = <<>> THEN (IF c = 0 THEN <<>> ELSE <<c>>)
  ELSE LET x == (IF a = <<>> THEN 0 ELSE a[1])
                + (IF b = <<>> THEN 0 ELSE b[1]) + c
       IN  <<x % Limb>> \o BAddCarry(IF a = <<>> THEN a ELSE Tail(a),
                                     IF b = <<>> THEN b ELSE Tail(b),
                                     x \div Limb)

BAdd(a, b) == BAddCarry(a, b, 0)

\* a * k for 0 < k <= 2^15
RECURSIVE BMulCarry(_, _, _)
BMulCarry(a, k, c) ==
  IF a = <<>> THEN (IF c = 0 THEN <<>> ELSE <<c>>)
  ELSE LET x == a[1] * k + c
       IN  <<x % Limb>> \o BMulCarry(Tail(a), k, x \div Limb)

BMulSmall(a, k) == BMulCarry(a, k, 0)

\* a * 2^s
BShl(a, s) ==
  IF a = <<>> THEN a
  ELSE [i \in 1..(s \div 15) |-> 0] \o BMulSmall(a, 2 ^ (s % 15))

\* a divided by d, 0 < d <= 2^15: the quotient and the remainder
RECURSIVE BDivSmall(_, _)
BDivSmall(a, d) ==
  IF a = <<>> THEN [q |-> <<>>, r |-> 0]
  ELSE LET hi == BDivSmall(Tail(a), d)
           x == hi.r * Limb + a[1]
       IN  [q |-> BNorm(<<x \div d>> \o hi.q), r |-> x % d]

\* a divided by 2^s: the quotient, and whether a bit that is 1 was dropped
BShr(a, s) ==
  LET k == IF s \div 15 < Len(a) THEN s \div 15 ELSE Len(a)
      d == BDivSmall(SubSeq(a, k + 1, Len(a)), 2 ^ (s % 15))
  IN  [ q |-> d.q,
        sticky |-> d.r # 0 \/ \E i \in 1..k : a[i] # 0 ]

RECURSIVE BitsOfInt(_)
BitsOfInt(n) == IF n = 0 THEN 0 ELSE 1 + BitsOfInt(n \div 2)

BitLen(a) ==
  IF a = <<>> THEN 0 ELSE 15 * (Len(a) - 1) + BitsOfInt(a[Len(a)])

BOdd(a) == a # <<>> /\ a[1] % 2 = 1

\* the double nearest to (n + f) * 2^e, where 0 <= f < 1 and f > 0 exactly
\* when sticky; ties go to the even significand
RoundToDouble(n, e, sticky) ==
  LET s == BitLen(n) - Precision
  IN  IF s <= 0 THEN [m |-> n, e |-> e]
      ELSE LET h == BShr(n, s - 1)
               q == BShr(h.q, 1).q
               up == BOdd(h.q) /\ (h.sticky \/ sticky \/ BOdd(q))
           IN  [m |-> IF up THEN BAdd(q, <<1>>) ELSE q, e |-> e + s]

\* Number(text) of a decimal text worth n thousandths, n >= 0: the double
\* nearest to n / 1000
DoubleOfThousandths(n) ==
  LET d == BDivSmall(BShl(BFromInt(n), 75), 1000)
  IN  RoundToDouble(d.q, 0 - 75, d.r # 0)

\* x + y
DoubleAdd(x, y) ==
  LET e == IF x.e <= y.e THEN x.e ELSE y.e
  IN  RoundToDouble(BAdd(BShl(x.m, x.e - e), BShl(y.m, y.e - e)), e, FALSE)

\* x * 100
DoubleTimes100(x) == RoundToDouble(BMulSmall(x.m, 100), x.e, FALSE)

\* Math.round(x), the integer floor(x + 1/2)
DoubleMathRound(x) ==
  IF x.e >= 0 THEN BToInt(BShl(x.m, x.e))
  ELSE BToInt(BShr(BAdd(x.m, BShl(<<1>>, 0 - x.e - 1)), 0 - x.e).q)

\* evt.participants.reduce((a, p) => a + (Number(p.reserveRMB) || 0), 0) in
\* doubles, for budgets that are not negative
RECURSIVE ReduceReserveDouble(_, _, _)
ReduceReserveDouble(ps, i, a) ==
  IF i > Len(ps) THEN a
  ELSE ReduceReserveDouble(ps, i + 1,
         DoubleAdd(a, DoubleOfThousandths(OrZero(Num(ps[i].reserveRMB)))))

\* totalReserveRMB as the engine computes it,
\* Math.round(sum * 100) / 100, in hundredths of one RMB
totalReserveDouble(evt) ==
  DoubleMathRound(DoubleTimes100(
    ReduceReserveDouble(evt.participants, 1, [m |-> <<>>, e |-> 0])))

\* calcStats with the budgets summed as the engine sums them
calcStatsDouble(evt) ==
  [calcStats(evt) EXCEPT !.totalReserveRMB = totalReserveDouble(evt)]

(***************************************************************************)
(* ProgressBar                                                             *)
(***************************************************************************)
\* x || n for a count x that may be undefined, null or NaN
OrElse(x, n) == IF OrZero(ToNumber(x)) = 0 THEN n ELSE ToNumber(x).v

Max(a, b) == IF a >= b THEN a ELSE b
Min(a, b) == IF a <= b THEN a ELSE b

\* a variant of ProgressBar: the ratio is not multiplied by 100
ProgressBarFraction(current, total) ==
  Max(0, Min(100, MathRound(OrElse(current, 0), OrElse(total, 1))))

\* a variant of ProgressBar: the percentage is not cut off at 100
ProgressBarUncut(current, total) ==
  Max(0, MathRound(100 * OrElse(current, 0), OrElse(total, 1)))

\* pct = Math.max(0, Math.min(100,
\*         Math.round(((current || 0) / (total || 1)) * 100)))
ProgressBar(current, total) ==
  LET c == OrElse(current, 0)
      t == OrElse(total, 1)
      r == IF t > 0 THEN MathRound(100 * c, t)
           ELSE MathRound(0 - 100 * c, 0 - t)
  IN  Max(0, Min(100, r))

\* the progress bar of the detail view: current = stats.activeCount,
\* total = evt.thresholds.headcount
QuorumProgress(st, evt) ==
  ProgressBar(JSNumber(st.activeCount), evt.thresholds.headcount)

(***************************************************************************)
(* The store and its participant operations                                *)
(***************************************************************************)
MaxIds == 3
MaxNewIds == 2
MaxRows == 3
MaxThreshold == 8

\* genId: an id no earlier call returned
genId == nextId + 1

\* thresholds.headcount is held as a JavaScript value: an imported event may
\* have none.
DEFAULT_EVENT(id) ==
  [ id |-> id,
    name |-> <<"D", "e", "m", "o">>,
    thresholds |-> [headcount |-> JSNumber(6)],
    rules |-> [mdtg |-> DEFAULT_MDTG_RULES],
    participants |-> <<>> ]

\* a variant of selectedEvent: no event is shown unless selectedEventId
\* names one
selectedEventNoFallback(d) ==
  LET found == {i \in 1..Len(d.events) :
                  <<d.events[i].id>> = d.selectedEventId}
  IN  IF found # {}
      THEN <<d.events[CHOOSE i \in found : \A j \in found : i <= j]>>
      ELSE <<>>

\* the event shown in the detail view, or none
selectedEvent(d) ==
  LET id == IF d.selectedEventId # <<>> THEN d.selectedEventId
            ELSE IF d.events # <<>> THEN <<d.events[1].id>> ELSE <<>>
      found == {i \in 1..Len(d.events) : <<d.events[i].id>> = id}
  IN  IF found # {}
      THEN <<d.events[CHOOSE i \in found : \A j \in found : i <= j]>>
      ELSE IF d.events # <<>> THEN <<d.events[1]>> ELSE <<>>

\* { ...p, ...patch }
Spread(p, patch) ==
  [k \in DOMAIN p |-> IF k \in DOMAIN patch THEN patch[k] ELSE p[k]]

\* a variant of addParticipant: the new participant is put at the end of
\* the list
addParticipantAtEnd(d, evtId, p, id) ==
  [d EXCEPT !.events =
     [i \in 1..Len(d.events) |->
        IF d.events[i].id = evtId
        THEN [d.events[i] EXCEPT
                !.participants = @ \o <<Spread(p, [id |-> id])>>]
        ELSE d.events[i]]]

addParticipant(d, evtId, p, id) ==
  [d EXCEPT !.events =
     [i \in 1..Len(d.events) |->
        IF d.events[i].id = evtId
        THEN [d.events[i] EXCEPT
                !.participants = <<Spread(p, [id |-> id])>> \o @]
        ELSE d.events[i]]]

\* a variant of updateParticipant: the participant is looked for in every
\* event, whatever the event id given
updateParticipantAnyEvent(d, evtId, pid, patch) ==
  [d EXCEPT !.events =
     [i \in 1..Len(d.events) |->
        [d.events[i] EXCEPT
           !.participants =
              [k \in 1..Len(@) |->
                 IF @[k].id = pid THEN Spread(@[k], patch) ELSE @[k]]]]]

updateParticipant(d, evtId, pid, patch) ==
  [d EXCEPT !.events =
     [i \in 1..Len(d.events) |->
        IF d.events[i].id = evtId
        THEN [d.events[i] EXCEPT
                !.participants =
                   [k \in 1..Len(@) |->
                      IF @[k].id = pid THEN Spread(@[k], patch) ELSE @[k]]]
        ELSE d.events[i]]]

removeParticipant(d, evtId, pid) ==
  LET Keep(p) == p.id # pid
  IN  [d EXCEPT !.events =
         [i \in 1..Len(d.events) |->
            IF d.events[i].id = evtId
            THEN [d.events[i] EXCEPT !.participants = SelectSeq(@, Keep)]
            ELSE d.events[i]]]

createEvent(d, evt) ==
  [d EXCEPT !.events = <<evt>> \o @, !.selectedEventId = <<evt.id>>]

updateEvent(d, id, patch) ==
  [d EXCEPT !.events =
     [i \in 1..Len(d.events) |->
        IF d.events[i].id = id THEN Spread(d.events[i], patch)
        ELSE d.events[i]]]

\* a variant of removeEvent: the selection is kept as it was
removeEventKeepSelection(d, id) ==
  LET Keep(e) == e.id # id
  IN  [d EXCEPT !.events = SelectSeq(d.events, Keep)]

\* a variant of removeEvent: the participants of the removed event are
\* handed to the first event that remains
removeEventKeepRows(d, id) ==
  LET Keep(e) == e.id # id
      Gone(e) == e.id = id
      filtered == SelectSeq(d.events, Keep)
      gone == SelectSeq(d.events, Gone)
  IN  [ events |->
          [i \in 1..Len(filtered) |->
             IF i = 1 /\ gone # <<>>
             THEN [filtered[1] EXCEPT
                     !.participants = @ \o gone[1].participants]
             ELSE filtered[i]],
        selectedEventId |->
          IF filtered # <<>> THEN <<filtered[1].id>> ELSE <<>> ]

\* a variant of removeEvent: the selection moves to the first event that
\* remains only when the event removed is the selected one
removeEventOfOther(d, id) ==
  LET Keep(e) == e.id # id
      filtered == SelectSeq(d.events, Keep)
  IN  [ events |-> filtered,
        selectedEventId |->
          IF d.selectedEventId # <<>> /\ d.selectedEventId # <<id>>
          THEN d.selectedEventId
          ELSE IF filtered # <<>> THEN <<filtered[1].id>> ELSE <<>> ]

removeEvent(d, id) ==
  LET Keep(e) == e.id # id
      filtered == SelectSeq(d.events, Keep)
  IN  [ events |-> filtered,
        selectedEventId |->
          IF filtered # <<>> THEN <<filtered[1].id>> ELSE <<>> ]

\* onSelect of the sidebar
select(d, id) == [d EXCEPT !.selectedEventId = <<id>>]

\* EventDetail's useMemo(() => calcStats(evt), [evt]) of the event shown,
\* computed at the first render
Render(d) ==
  IF selectedEvent(d) = <<>> THEN <<>> ELSE <<calcStats(selectedEvent(d)[1])>>

\* the place in d.events of the event shown in the detail view, 0 for none
selectedIndex(d) ==
  LET id == IF d.selectedEventId # <<>> THEN d.selectedEventId
            ELSE IF d.events # <<>> THEN <<d.events[1].id>> ELSE <<>>
      found == {i \in 1..Len(d.events) : <<d.events[i].id>> = id}
  IN  IF found # {} THEN CHOOSE i \in found : \A j \in found : i <= j
      ELSE IF d.events # <<>> THEN 1 ELSE 0

\* a variant of Rebuilt: the operation writes into the event it finds and
\* builds no new event object
RebuiltNone(d, evtId) == {}

\* the places of d.events where the map of a participant operation puts a
\* new event object, { ...e, participants: ... }; at every other place it
\* returns the object it was given
Rebuilt(d, evtId) == {i \in 1..Len(d.events) : d.events[i].id = evtId}

\* EventDetail rendered again after a participant operation on event evtId
\* of store d gave store d2: useMemo(() => calcStats(evt), [evt]) keeps the
\* result prev of the last render unless evt is another object than it was.
Rerender(prev, d, evtId, d2) ==
  LET at == selectedIndex(d2)
  IN  IF at = 0 THEN <<>>
      ELSE IF at \in Rebuilt(d, evtId)
           THEN <<calcStats(d2.events[at])>>
           ELSE prev

(***************************************************************************)
(* localStorage, loadData and saveData                                     *)
(***************************************************************************)
\* no item under STORAGE_KEY yet
NoStorage == [item |-> <<>>, fails |-> FALSE]

\* JSON.stringify of a JavaScript value held in a field: NaN is written as
\* null; a field that is undefined is left out and reads as undefined
ToJSON(x) == IF x.t = "number" /\ x.num.nan THEN JSNull ELSE x

\* JSON.stringify(data): the text of the store
JSONstringify(d) ==
  [ json |-> TRUE,
    value |->
      [d EXCEPT !.events =
         [i \in 1..Len(d.events) |->
            [d.events[i] EXCEPT
               !.thresholds.headcount = ToJSON(d.events[i].thresholds.headcount)]]] ]

\* an item that is no JSON text
Garbage == [json |-> FALSE, value |-> <<>>]

\* JSON.parse(raw): the value, or none when it throws
JSONparse(raw) == IF raw.json THEN <<raw.value>> ELSE <<>>

\* loadData(): the store read, or null
loadData(st) ==
  IF st.fails THEN <<>>
  ELSE IF st.item = <<>> THEN <<>>
  ELSE JSONparse(st.item[1])

\* a variant of saveData: an item already there is not written over
saveDataOnce(st, d) ==
  IF st.fails \/ st.item # <<>> THEN st
  ELSE [st EXCEPT !.item = <<JSONstringify(d)>>]

\* saveData(data): localStorage after the call
saveData(st, d) ==
  IF st.fails THEN st ELSE [st EXCEPT !.item = <<JSONstringify(d)>>]

\* clamp(n, a, b) = Math.min(Math.max(n, a), b), the two limits given in whole
\* RMB (the upper limit of the budget prompt, in thousandths, is outside the
\* integers of the model checker, so n is compared in whole RMB).
clamp(n, a, b) ==
  LET lo == IF n < RMB(a) THEN RMB(a) ELSE n
  IN  IF lo \div 1000 >= b THEN RMB(b) ELSE lo

MaxBudgetRMB == 9999999

(***************************************************************************)
(* Inputs                                                                  *)
(***************************************************************************)
MaxBudgetSteps == 6
MaxTiers == 3

\* budgets at, just below and just above every multiple of 100 RMB
BudgetNumbers ==
  {k * RMB(100) + e : k \in (0 - 1)..MaxBudgetSteps, e \in {0 - 1, 0, 1}}

\* inputs that are no number: absent, NaN, empty, blank and malformed text
NonNumericInputs ==
  { JSUndefined, JSNull, JSNaN,
    JSString(<<>>), JSString(<<" ">>),
    JSString(<<"a", "b", "c">>), JSString(<<"4", "0", "0", "a">>),
    JSString(<<"3", " ", "5">>), JSString(<<"-">>), JSString(<<".">>),
    JSString(<<"1", ".", "2", ".", "3">>) }

NumericStrings ==
  { JSString(<<"3", "0", "0">>), JSString(<<" ", "5", "0", "0", " ">>),
    JSString(<<"2", "9", "9", ".", "9", "9", "9">>),
    JSString(<<"-", "5">>), JSString(<<"+", "4", "0", "0">>),
    JSString(<<".", "5">>), JSString(<<"6", "0", "0", ".">>) }

BudgetInputs ==
  {JSNumber(n) : n \in BudgetNumbers} \cup NonNumericInputs \cup NumericStrings

\* Tier lists of every shape: in order or not, with gaps, overlaps, empty
\* ranges and an unbounded tier anywhere.  The tier at position i carries the
\* i-th rate, so the rate returned tells which tier was chosen.
TierRate(i) == IF i <= 3 THEN DefaultTiers[i].rate ELSE 60 - 2 * (i - 3)
TierMins == {0, RMB(300), RMB(500)}
TierMaxes == {<<RMB(300)>>, <<RMB(500)>>, <<>>}
TiersAt(i) == {Tier(mn, mx, TierRate(i)) : mn \in TierMins, mx \in TierMaxes}

RECURSIVE TierListsOfLen(_)
TierListsOfLen(k) ==
  IF k = 0 THEN {<<>>}
  ELSE {Append(l, t) : l \in TierListsOfLen(k - 1), t \in TiersAt(k)}

TierLists == UNION {TierListsOfLen(k) : k \in 0..MaxTiers}

\* Deposit policies: contiguous, with a gap between the small and the mid
\* band, with the two overlapping, and with any large band.
Policies ==
  { [ small |-> [upTo |-> u, ratio |-> 30],
      mid |-> [from |-> f, to |-> t, ratio |-> 50],
      large |-> [from |-> lf, ratio |-> lr] ] :
      u \in {RMB(200), RMB(300), RMB(400)}, f \in {RMB(300), RMB(400)},
      t \in {RMB(400), RMB(500)}, lf \in {RMB(500), RMB(600)},
      lr \in {100, 80} }

(***************************************************************************)
(* Resolver calls                                                          *)
(***************************************************************************)
NoPrepay == [type |-> "none", ratio |-> 0]

NoCall ==
  [ op |-> "none", done |-> TRUE, budgetRMB |-> JSUndefined,
    rules |-> DEFAULT_MDTG_RULES, rate |-> 0, prepay |-> NoPrepay ]

\* a call about to be made: the arguments, nothing returned yet
Pending(op, b, rules) ==
  [ op |-> op, done |-> FALSE, budgetRMB |-> b, rules |-> rules,
    rate |-> 0, prepay |-> NoPrepay ]

CallRateOf ==
  /\ call.op = "mdtgRateOf" /\ ~call.done
  /\ call' = [call EXCEPT !.done = TRUE,
                          !.rate = mdtgRateOf(call.budgetRMB, call.rules)]
  /\ UNCHANGED <<data, stats, nextId, storage>>

CallPrepayOf ==
  /\ call.op = "mdtgPrepayOf" /\ ~call.done
  /\ call' = [call EXCEPT !.done = TRUE,
                          !.prepay = mdtgPrepayOf(call.budgetRMB, call.rules)]
  /\ UNCHANGED <<data, stats, nextId, storage>>

(***************************************************************************)
(* The organizer's actions on the event shown                              *)
(***************************************************************************)
\* what the organizer types into the budget field of the add form
FormBudgetTexts == { <<"6", "0", "0">>, <<"-", "5">> }

\* what the organizer types into the budget prompt
PromptTexts == { <<"4", "0", "0">>, <<"0", ".", "0", "0", "6">> }

FormNames == {<<>>, <<"A">>}

\* AddParticipantForm.submit, the form holding one of the names and one of
\* the budget texts, while genId has ids below maxId left
SubmitForm(names, texts, maxId) ==
  /\ selectedEvent(data) # <<>>
  /\ nextId < maxId
  /\ \E name \in names, text \in texts :
       LET evt == selectedEvent(data)[1]
           prepay == mdtgPrepayOf(JSNumber(NumberOr0(JSString(text))),
                                  evt.rules.mdtg)
           p == [ id |-> 0, name |-> name,
                  reserveRMB |-> NumberOr0(JSString(text)),
                  depositPaid |-> FALSE,
                  prepayType |-> prepay.type,
                  status |-> "active" ]
       IN  IF name = <<>>
           THEN UNCHANGED <<data, stats, nextId, storage>>
           ELSE /\ data' = addParticipant(data, evt.id, p, genId)
                /\ nextId' = genId
                /\ stats' = Rerender(stats, data, evt.id, data')
                /\ storage' = saveData(storage, data')
  /\ UNCHANGED call

SubmitAdd == SubmitForm(FormNames, FormBudgetTexts, MaxIds)

\* a variant of EditPrompt: a participant whose budget is edited counts as
\* unpaid again
EditPromptResetsPaid(texts) ==
  /\ selectedEvent(data) # <<>>
  /\ LET evt == selectedEvent(data)[1]
     IN  \E k \in 1..Len(evt.participants) :
         \E nv \in {<<>>} \cup {<<t>> : t \in texts} :
           IF nv = <<>>
           THEN UNCHANGED <<data, stats, storage>>
           ELSE /\ data' = updateParticipant(data, evt.id,
                     evt.participants[k].id,
                     [reserveRMB |->
                        clamp(NumberOr0(JSString(nv[1])), 0, MaxBudgetRMB),
                      depositPaid |-> FALSE])
                /\ stats' = Rerender(stats, data, evt.id, data')
                /\ storage' = saveData(storage, data')
  /\ UNCHANGED <<call, nextId>>

\* a variant of EditPrompt: the stored prepayment type is brought up to
\* date with the new budget
EditPromptRecomputes(texts) ==
  /\ selectedEvent(data) # <<>>
  /\ LET evt == selectedEvent(data)[1]
     IN  \E k \in 1..Len(evt.participants) :
         \E nv \in {<<>>} \cup {<<t>> : t \in texts} :
           IF nv = <<>>
           THEN UNCHANGED <<data, stats, storage>>
           ELSE /\ data' = updateParticipant(data, evt.id,
                     evt.participants[k].id,
                     [reserveRMB |->
                        clamp(NumberOr0(JSString(nv[1])), 0, MaxBudgetRMB),
                      prepayType |->
                        mdtgPrepayOf(
                          JSNumber(clamp(NumberOr0(JSString(nv[1])), 0,
                                         MaxBudgetRMB)),
                          evt.rules.mdtg).type])
                /\ stats' = Rerender(stats, data, evt.id, data')
                /\ storage' = saveData(storage, data')
  /\ UNCHANGED <<call, nextId>>

\* the "改预算" button: prompt, then onUpdateP(p.id, { reserveRMB: ... });
\* the prompt is cancelled or answered with one of the texts
EditPrompt(texts) ==
  /\ selectedEvent(data) # <<>>
  /\ LET evt == selectedEvent(data)[1]
     IN  \E k \in 1..Len(evt.participants) :
         \E nv \in {<<>>} \cup {<<t>> : t \in texts} :
           IF nv = <<>>
           THEN UNCHANGED <<data, stats, storage>>
           ELSE /\ data' = updateParticipant(data, evt.id,
                     evt.participants[k].id,
                     [reserveRMB |->
                        clamp(NumberOr0(JSString(nv[1])), 0, MaxBudgetRMB)])
                /\ stats' = Rerender(stats, data, evt.id, data')
                /\ storage' = saveData(storage, data')
  /\ UNCHANGED <<call, nextId>>

EditBudget == EditPrompt(PromptTexts)

\* the deposit checkbox: onUpdateP(p.id, { depositPaid: e.target.checked })
ToggleDeposit ==
  /\ selectedEvent(data) # <<>>
  /\ LET evt == selectedEvent(data)[1]
     IN  \E k \in 1..Len(evt.participants) :
           /\ data' = updateParticipant(data, evt.id, evt.participants[k].id,
                        [depositPaid |-> ~evt.participants[k].depositPaid])
           /\ stats' = Rerender(stats, data, evt.id, data')
           /\ storage' = saveData(storage, data')
  /\ UNCHANGED <<call, nextId>>

\* the status select: onUpdateP(p.id, { status: e.target.value })
SetStatus ==
  /\ selectedEvent(data) # <<>>
  /\ LET evt == selectedEvent(data)[1]
     IN  \E k \in 1..Len(evt.participants) :
         \E s \in {"active", "fulfilled", "cancelled"} :
           /\ data' = updateParticipant(data, evt.id, evt.participants[k].id,
                        [status |-> s])
           /\ stats' = Rerender(stats, data, evt.id, data')
           /\ storage' = saveData(storage, data')
  /\ UNCHANGED <<call, nextId>>

\* the "删除" button: confirm, then onRemoveP(p.id)
RemoveRow ==
  /\ selectedEvent(data) # <<>>
  /\ LET evt == selectedEvent(data)[1]
     IN  \E k \in 1..Len(evt.participants) :
         \E ok \in BOOLEAN :
           IF ok
           THEN /\ data' = removeParticipant(data, evt.id,
                                             evt.participants[k].id)
                /\ stats' = Rerender(stats, data, evt.id, data')
                /\ storage' = saveData(storage, data')
           ELSE UNCHANGED <<data, stats, storage>>
  /\ UNCHANGED <<call, nextId>>

(***************************************************************************)
(* Specifications                                                          *)
(***************************************************************************)
\* the session's first store: one default event, selected by the effect that
\* runs after the first render
InitData == [events |-> <<DEFAULT_EVENT(1)>>, selectedEventId |-> <<1>>]

Init ==
  /\ call = NoCall
  /\ data = InitData
  /\ stats = Render(InitData)
  /\ storage = saveData(NoStorage, InitData)
  /\ nextId = 1

\* the resolvers applied to every input and every configuration
InitResolve ==
  /\ \/ \E b \in BudgetInputs, ts \in TierLists :
          call = Pending("mdtgRateOf", b,
                         [DEFAULT_MDTG_RULES EXCEPT !.tiers = ts])
     \/ \E b \in BudgetInputs, dp \in Policies :
          call = Pending("mdtgPrepayOf", b,
                         [DEFAULT_MDTG_RULES EXCEPT !.depositPolicy = dp])
  /\ data = InitData
  /\ stats = Render(InitData)
  /\ storage = saveData(NoStorage, InitData)
  /\ nextId = 1

NextResolve == CallRateOf \/ CallPrepayOf
SpecResolve == InitResolve /\ [][NextResolve]_vars

\* the organizer working on the participants of the event shown
NextStats == SubmitAdd \/ EditBudget \/ ToggleDeposit \/ SetStatus \/ RemoveRow
SpecStats == Init /\ [][NextStats]_vars

\* the scenario of three sign-ups: budgets 200, 400 and 600 typed into the
\* add form of the default event, and the status of a row changed
ScenarioTexts == { <<"2", "0", "0">>, <<"4", "0", "0">>, <<"6", "0", "0">> }

SubmitScenario == SubmitForm({<<"A">>}, ScenarioTexts, MaxRows + 1)

NextScenario == SubmitScenario \/ SetStatus
SpecScenario == Init /\ [][NextScenario]_vars

\* the ledger of an event: sign-ups with budget 600, budgets edited to 400
\* and to 0.004, deposits marked, statuses changed and rows removed
LedgerTexts == { <<"4", "0", "0">>, <<"0", ".", "0", "0", "4">> }

SubmitLedger == SubmitForm({<<"A">>}, {<<"6", "0", "0">>}, MaxIds)
EditLedger == EditPrompt(LedgerTexts)

NextLedger ==
  SubmitLedger \/ EditLedger \/ ToggleDeposit \/ SetStatus \/ RemoveRow
SpecLedger == Init /\ [][NextLedger]_vars

\* sign-ups added at the head of the list, marked as paid and removed
NextOrder == SubmitScenario \/ ToggleDeposit \/ RemoveRow
SpecOrder == Init /\ [][NextOrder]_vars

(***************************************************************************)
(* The store: events created, selected, renamed, removed and imported      *)
(***************************************************************************)
\* the last store operation and the event id it was called with; for
\* removeEvent also the selectedEventId of the store it was applied to
StoreCall(op, evtId) == [op |-> op, evtId |-> evtId, was |-> <<>>]

Row(id, budget, paid, type, status) ==
  [ id |-> id, name |-> <<"A">>, reserveRMB |-> budget, depositPaid |-> paid,
    prepayType |-> type, status |-> status ]

\* events of a backup file; their ids are none that genId hands out here
Imported11 ==
  [DEFAULT_EVENT(11) EXCEPT
     !.participants = <<Row(21, RMB(400), FALSE, "deposit", "active")>>]
Imported12 ==
  [DEFAULT_EVENT(12) EXCEPT
     !.participants = <<Row(22, RMB(600), TRUE, "full", "cancelled")>>]

\* what the file chosen for import holds: text that JSON.parse rejects, an
\* object without events, two events with no selection, one event with a
\* selection that names no event, and no event at all
ImportFiles ==
  { [parses |-> FALSE, events |-> <<>>, selectedEventId |-> <<>>],
    [parses |-> TRUE, events |-> <<>>, selectedEventId |-> <<>>],
    [parses |-> TRUE, events |-> <<(<<Imported11, Imported12>>)>>,
     selectedEventId |-> <<>>],
    [parses |-> TRUE, events |-> <<(<<DEFAULT_EVENT(11)>>)>>,
     selectedEventId |-> <<99>>],
    [parses |-> TRUE, events |-> <<(<<>>)>>, selectedEventId |-> <<>>] }

\* the ids of the events in the store, and one that no event has
EventIds(d) == {d.events[i].id : i \in 1..Len(d.events)} \cup {0}

\* the ids of the participants in the store, and one that nobody has
ParticipantIds(d) ==
  UNION {{d.events[i].participants[k].id :
            k \in 1..Len(d.events[i].participants)} :
         i \in 1..Len(d.events)} \cup {0}

\* NewEventModal.submit
CreateEvent ==
  /\ nextId < MaxNewIds
  /\ \E name \in {<<>>, <<"N">>} :
       IF name = <<>>
       THEN UNCHANGED <<call, data, stats, nextId, storage>>
       ELSE /\ data' = createEvent(data,
                         [DEFAULT_EVENT(genId) EXCEPT !.name = name])
            /\ nextId' = genId
            /\ call' = StoreCall("createEvent", genId)
            /\ stats' = Render(data')
            /\ storage' = saveData(storage, data')

\* a click on an event of the sidebar
Select ==
  /\ \E i \in 1..Len(data.events) :
       /\ data' = select(data, data.events[i].id)
       /\ call' = StoreCall("select", data.events[i].id)
  /\ stats' = Render(data')
  /\ storage' = saveData(storage, data')
  /\ UNCHANGED nextId

\* the "编辑" button of the sidebar: prompt, then onUpdate(e.id, { name })
RenameEvent ==
  /\ \E i \in 1..Len(data.events) :
     \E name \in {<<>>, <<(<<"R">>)>>} :
       IF name = <<>>
       THEN UNCHANGED <<call, data, stats, storage>>
       ELSE /\ data' = updateEvent(data, data.events[i].id,
                                   [name |-> name[1]])
            /\ call' = StoreCall("updateEvent", data.events[i].id)
            /\ stats' = Render(data')
            /\ storage' = saveData(storage, data')
  /\ UNCHANGED nextId

\* the "删除" button of the sidebar: confirm, then onRemove(e.id)
RemoveEvent ==
  /\ \E i \in 1..Len(data.events) :
     \E ok \in BOOLEAN :
       IF ok
       THEN /\ data' = removeEvent(data, data.events[i].id)
            /\ call' = [StoreCall("removeEvent", data.events[i].id)
                          EXCEPT !.was = data.selectedEventId]
            /\ stats' = Render(data')
            /\ storage' = saveData(storage, data')
       ELSE UNCHANGED <<call, data, stats, storage>>
  /\ UNCHANGED nextId

\* a variant of ImportJSON: the store is set before the events field is
\* looked at
ImportJSONSetsFirst ==
  /\ \E f \in ImportFiles :
       IF f.parses
       THEN /\ data' = [ events |-> IF f.events # <<>> THEN f.events[1]
                                    ELSE <<>>,
                         selectedEventId |-> f.selectedEventId ]
            /\ call' = IF f.events # <<>> THEN StoreCall("importJSON", 0)
                       ELSE StoreCall("alert", 0)
            /\ stats' = Render(data')
            /\ storage' = saveData(storage, data')
       ELSE /\ call' = StoreCall("alert", 0)
            /\ UNCHANGED <<data, stats, storage>>
  /\ UNCHANGED nextId

\* importJSON, the file read: JSON.parse, the test of obj?.events, then
\* setData(obj), or the alert of the catch block
ImportJSON ==
  /\ \E f \in ImportFiles :
       IF f.parses /\ f.events # <<>>
       THEN /\ data' = [ events |-> f.events[1],
                         selectedEventId |-> f.selectedEventId ]
            /\ call' = StoreCall("importJSON", 0)
            /\ stats' = Render(data')
            /\ storage' = saveData(storage, data')
       ELSE /\ call' = StoreCall("alert", 0)
            /\ UNCHANGED <<data, stats, storage>>
  /\ UNCHANGED nextId

\* addParticipant called with the id of an event or with one no event has
CallAddParticipant ==
  /\ nextId < MaxNewIds
  /\ \E evtId \in EventIds(data) :
       /\ data' = addParticipant(data, evtId,
                     Row(0, RMB(400), FALSE, "deposit", "active"), genId)
       /\ nextId' = IF Rebuilt(data, evtId) # {} THEN genId ELSE nextId
       /\ call' = StoreCall("addParticipant", evtId)
       /\ stats' = Rerender(stats, data, evtId, data')
       /\ storage' = saveData(storage, data')

\* updateParticipant called with any event id and any participant id
CallUpdateParticipant ==
  /\ \E evtId \in EventIds(data), pid \in ParticipantIds(data) :
     \E patch \in {[depositPaid |-> TRUE]} :
       /\ data' = updateParticipant(data, evtId, pid, patch)
       /\ call' = StoreCall("updateParticipant", evtId)
       /\ stats' = Rerender(stats, data, evtId, data')
       /\ storage' = saveData(storage, data')
  /\ UNCHANGED nextId

\* removeParticipant called with any event id and any participant id
CallRemoveParticipant ==
  /\ \E evtId \in EventIds(data), pid \in ParticipantIds(data) :
       /\ data' = removeParticipant(data, evtId, pid)
       /\ call' = StoreCall("removeParticipant", evtId)
       /\ stats' = Rerender(stats, data, evtId, data')
       /\ storage' = saveData(storage, data')
  /\ UNCHANGED nextId

InitStore ==
  /\ call = StoreCall("none", 0)
  /\ data = InitData
  /\ stats = Render(InitData)
  /\ storage = saveData(NoStorage, InitData)
  /\ nextId = 1

NextStore ==
  \/ CreateEvent \/ Select \/ RenameEvent \/ RemoveEvent \/ ImportJSON
  \/ CallAddParticipant \/ CallUpdateParticipant \/ CallRemoveParticipant
SpecStore == InitStore /\ [][NextStore]_vars

(***************************************************************************)
(* The page loaded again, and localStorage failing                         *)
(***************************************************************************)
\* a variant of Reload: without a stored copy the session starts with no
\* event at all
ReloadEmptyDefault ==
  /\ LET loaded == loadData(storage)
         d == IF loaded = <<>>
              THEN [events |-> <<>>, selectedEventId |-> <<>>]
              ELSE IF loaded[1].selectedEventId = <<>> /\ loaded[1].events # <<>>
                   THEN select(loaded[1], loaded[1].events[1].id)
                   ELSE loaded[1]
     IN  /\ data' = d
         /\ stats' = Render(d)
         /\ storage' = saveData(storage, d)
  /\ call' = StoreCall("loadData", 0)
  /\ UNCHANGED nextId

\* the page loaded again: useState(() => loadData() || { events:
\* [DEFAULT_EVENT()], selectedEventId: null }), then the effects of the first
\* render: the first event is selected when none is, and the store is saved
Reload ==
  /\ LET loaded == loadData(storage)
         first == IF loaded = <<>>
                  THEN [events |-> <<DEFAULT_EVENT(genId)>>,
                        selectedEventId |-> <<>>]
                  ELSE loaded[1]
         d == IF first.selectedEventId = <<>> /\ first.events # <<>>
              THEN select(first, first.events[1].id)
              ELSE first
     IN  /\ loaded = <<>> => nextId < MaxNewIds
         /\ data' = d
         /\ nextId' = IF loaded = <<>> THEN genId ELSE nextId
         /\ stats' = Render(d)
         /\ storage' = saveData(storage, d)
  /\ call' = StoreCall("loadData", 0)

\* localStorage stops working (the quota is used up, access is denied), or
\* works again
StorageBreaks ==
  /\ storage' = [storage EXCEPT !.fails = ~storage.fails]
  /\ call' = StoreCall("none", 0)
  /\ UNCHANGED <<data, stats, nextId>>

\* the item is overwritten from outside the session with text that is no
\* JSON
ItemCorrupted ==
  /\ ~storage.fails
  /\ storage.item # <<Garbage>>
  /\ storage' = [storage EXCEPT !.item = <<Garbage>>]
  /\ call' = StoreCall("none", 0)
  /\ UNCHANGED <<data, stats, nextId>>

\* the store with localStorage working, and the page loaded again
NextPersist == NextStore \/ Reload
SpecPersist == InitStore /\ [][NextPersist]_vars

\* events created, selected and renamed while localStorage fails at times
NextFailure ==
  \/ CreateEvent \/ Select \/ RenameEvent
  \/ Reload \/ StorageBreaks \/ ItemCorrupted
SpecFailure == InitStore /\ [][NextFailure]_vars

(***************************************************************************)
(* calcStats and ProgressBar applied to events of every shape              *)
(***************************************************************************)
\* participants of four kinds: sub-cent and whole budgets, every status,
\* deposit paid and not paid
CalcRows ==
  { [ id |-> 0, name |-> <<"A">>, reserveRMB |-> 5, depositPaid |-> TRUE,
      prepayType |-> "deposit", status |-> "active" ],
    [ id |-> 0, name |-> <<"B">>, reserveRMB |-> 60, depositPaid |-> FALSE,
      prepayType |-> "deposit", status |-> "cancelled" ],
    [ id |-> 0, name |-> <<"C">>, reserveRMB |-> 700, depositPaid |-> TRUE,
      prepayType |-> "deposit", status |-> "fulfilled" ],
    [ id |-> 0, name |-> <<"D">>, reserveRMB |-> RMB(600),
      depositPaid |-> FALSE, prepayType |-> "full", status |-> "active" ] }

\* the participant lists of length k, the participant at place i having id i
RECURSIVE RowListsOfLen(_)
RowListsOfLen(k) ==
  IF k = 0 THEN {<<>>}
  ELSE {Append(l, [r EXCEPT !.id = k]) :
          l \in RowListsOfLen(k - 1), r \in CalcRows}

\* headcount thresholds: none, null, NaN, 0 and the counts up to MaxThreshold
Thresholds ==
  {JSUndefined, JSNull, JSNaN} \cup {JSNumber(k) : k \in 0..MaxThreshold}

\* the orders of n things
Orders(n) ==
  {f \in [1..n -> 1..n] : \A i, j \in 1..n : f[i] = f[j] => i = j}

EventOf(rows, headcount) ==
  [DEFAULT_EVENT(1) EXCEPT !.participants = rows,
                           !.thresholds = [headcount |-> headcount]]

\* a run of calls about to be made on event evt of the store
PendingStats(op, evt) ==
  [ op |-> op, evt |-> evt, calls |-> 0, first |-> <<>>, second |-> <<>>,
    reordered |-> <<>>, ofReordered |-> <<>>, pct |-> <<>> ]

InitCalc ==
  /\ \E k \in 0..MaxRows : \E rows \in RowListsOfLen(k) :
       \/ /\ call = PendingStats("calcStats", EventOf(rows, JSNumber(6)))
          /\ data = [events |-> <<call.evt>>, selectedEventId |-> <<1>>]
       \/ \E h \in Thresholds :
            /\ call = PendingStats("ProgressBar", EventOf(rows, h))
            /\ data = [events |-> <<call.evt>>, selectedEventId |-> <<1>>]
  /\ stats = Render(data)
  /\ storage = saveData(NoStorage, data)
  /\ nextId = 1

\* a variant of CallCalcStats: the call sorts the participants of its
\* argument in place, last one first
CallCalcStatsSorting ==
  /\ call.op = "calcStats" /\ call.calls < 2
  /\ LET evt == selectedEvent(data)[1]
         n == Len(evt.participants)
     IN  /\ call' = [call EXCEPT !.calls = @ + 1,
                                 !.first = <<calcStatsDouble(evt)>>]
         /\ data' = [data EXCEPT !.events[1].participants =
                       [i \in 1..n |-> evt.participants[n + 1 - i]]]
  /\ UNCHANGED <<stats, nextId, storage>>

\* calcStats called on the event of the store, a first and a second time;
\* the function assigns to nothing but its own constants
CallCalcStats ==
  /\ call.op = "calcStats" /\ call.calls < 2
  /\ LET evt == selectedEvent(data)[1]
     IN  call' = [call EXCEPT
                    !.calls = @ + 1,
                    !.first = IF call.calls = 0
                              THEN <<calcStatsDouble(evt)>> ELSE @,
                    !.second = IF call.calls = 1
                               THEN <<calcStatsDouble(evt)>> ELSE @]
  /\ UNCHANGED <<data, stats, nextId, storage>>

\* calcStats called on the same event with its participants in another order
CallCalcStatsReordered ==
  /\ call.op = "calcStats" /\ call.calls = 2 /\ call.reordered = <<>>
  /\ LET evt == selectedEvent(data)[1]
         n == Len(evt.participants)
     IN  \E f \in Orders(n) :
           LET rows == [i \in 1..n |-> evt.participants[f[i]]]
           IN  call' = [call EXCEPT
                          !.reordered = <<rows>>,
                          !.ofReordered =
                             <<calcStatsDouble(
                                [evt EXCEPT !.participants = rows])>>]
  /\ UNCHANGED <<data, stats, nextId, storage>>

\* the detail view rendered: stats = calcStats(evt), then the progress bar
CallProgressBar ==
  /\ call.op = "ProgressBar" /\ call.pct = <<>>
  /\ LET evt == selectedEvent(data)[1]
     IN  call' = [call EXCEPT
                    !.calls = 1,
                    !.first = <<calcStatsDouble(evt)>>,
                    !.pct = <<QuorumProgress(calcStatsDouble(evt), evt)>>]
  /\ UNCHANGED <<data, stats, nextId, storage>>

NextCalc == CallCalcStats \/ CallCalcStatsReordered \/ CallProgressBar
SpecCalc == InitCalc /\ [][NextCalc]_vars

(***************************************************************************)
(* The CSV export                                                          *)
(***************************************************************************)
MaxText == 3

\* s.includes(sub)
Includes(s, sub) ==
  \E i \in 1..(Len(s) - Len(sub) + 1) : SubSeq(s, i, i + Len(sub) - 1) = sub

\* s.replaceAll(c, by) for a single character c
RECURSIVE ReplaceAll(_, _, _)
ReplaceAll(s, c, by) ==
  IF s = <<>> THEN <<>>
  ELSE (IF Head(s) = c THEN by ELSE <<Head(s)>>) \o ReplaceAll(Tail(s), c, by)

\* safeCSV(text) of a string; the third test, s.includes("\\n"), looks for a
\* backslash followed by the letter n
safeCSV(text) ==
  IF \/ Includes(text, <<",">>)
     \/ Includes(text, <<"\"">>)
     \/ Includes(text, <<"\\", "n">>)
  THEN <<"\"">> \o ReplaceAll(text, "\"", <<"\"", "\"">>) \o <<"\"">>
  ELSE text

\* the characters of the texts tried: a letter, the comma, the double quote,
\* the line feed, the backslash and the letter n
TextChars == {"a", ",", "\"", "\n", "\\", "n"}

RECURSIVE TextsOfLen(_)
TextsOfLen(k) ==
  IF k = 0 THEN {<<>>}
  ELSE {Append(t, c) : t \in TextsOfLen(k - 1), c \in TextChars}

\* the decimal digits of a natural number
RECURSIVE NatText(_)
NatText(n) ==
  IF n < 10 THEN <<Digits[n + 1]>>
  ELSE NatText(n \div 10) \o <<Digits[(n % 10) + 1]>>

\* the digits after the point of String(n) for f thousandths, 0 < f < 1000
FracText(f) ==
  IF f % 100 = 0 THEN <<Digits[(f \div 100) + 1]>>
  ELSE IF f % 10 = 0
       THEN <<Digits[(f \div 100) + 1], Digits[((f \div 10) % 10) + 1]>>
       ELSE <<Digits[(f \div 100) + 1], Digits[((f \div 10) % 10) + 1],
              Digits[(f % 10) + 1]>>

\* String(n) of a number of n thousandths, as join writes a number: the
\* shortest decimal text
NumberToString(n) ==
  LET a == IF n < 0 THEN 0 - n ELSE n
  IN  (IF n < 0 THEN <<"-">> ELSE <<>>)
        \o NatText(a \div 1000)
        \o (IF a % 1000 = 0 THEN <<>> ELSE <<".">> \o FracText(a % 1000))

\* percent(n) = `${(n * 100).toFixed(0)}%` of a ratio of n hundredths
percent(n) == NatText(n) \o <<"%">>

\* the double nearest to n / 100, n >= 0: a ratio as the engine holds it
DoubleOfHundredths(n) ==
  LET d == BDivSmall(BShl(BFromInt(n), 75), 100)
  IN  RoundToDouble(d.q, 0 - 75, d.r # 0)

\* a * b
RECURSIVE BMul(_, _)
BMul(a, b) ==
  IF a = <<>> \/ b = <<>> THEN <<>>
  ELSE BNorm(BAdd(IF b[1] = 0 THEN <<>> ELSE BMulSmall(a, b[1]),
                  <<0>> \o BMul(a, Tail(b))))

\* x * y
DoubleMul(x, y) == RoundToDouble(BMul(x.m, y.m), x.e + y.e, FALSE)

\* x.toFixed(2) in hundredths: the integer n with n / 100 nearest to the
\* exact value of the double x, the larger one of two
toFixed2(x) == DoubleMathRound([m |-> BMulSmall(x.m, 100), e |-> x.e])

\* the text of x.toFixed(2), given its hundredths
FixedText(cents) ==
  NatText(cents \div 100)
    \o <<".", Digits[((cents \div 10) % 10) + 1], Digits[(cents % 10) + 1]>>

\* the labels of the export, written in Latin letters here: "全款" and
\* "定金 ", "已收" and "未收", and those of statusLabel
LabelFull == <<"f", "u", "l", "l">>
LabelDeposit == <<"d", "e", "p", " ">>
LabelPaid == <<"y">>
LabelUnpaid == <<"n">>

statusLabel(st) ==
  CASE st = "active" -> <<"o", "n">>
    [] st = "fulfilled" -> <<"o", "k">>
    [] st = "cancelled" -> <<"n", "o">>
    [] OTHER -> <<"-">>

\* the eleven column titles, one letter for each
Headers ==
  [k \in 1..11 |-> <<<<"A", "B", "C", "D", "E", "F", "G", "H", "I", "J", "K">>[k]>>]

\* the byte order mark written before the content
BOM == "BOM"

\* r.join(sep) of a list of texts
RECURSIVE Join(_, _)
Join(texts, sep) ==
  IF texts = <<>> THEN <<>>
  ELSE IF Len(texts) = 1 THEN texts[1]
  ELSE texts[1] \o <<sep>> \o Join(Tail(texts), sep)

\* a text field of a participant: String(text ?? ""), the fields a
\* participant does not have being undefined
TextOf(p, field) == IF field \in DOMAIN p THEN p[field] ELSE <<>>

\* the row of participant i of the export; the amount is computed in
\* doubles, for a budget that is not negative
ExportRow(evt, i) ==
  LET p == evt.participants[i]
      rate == mdtgRateOf(JSNumber(p.reserveRMB), evt.rules.mdtg)
      pre == mdtgPrepayOf(JSNumber(p.reserveRMB), evt.rules.mdtg)
      amt == DoubleMul(DoubleOfThousandths(p.reserveRMB),
                       DoubleOfHundredths(pre.ratio))
  IN  << NatText(i),
         safeCSV(TextOf(p, "name")),
         safeCSV(TextOf(p, "handle")),
         safeCSV(TextOf(p, "wish")),
         NumberToString(p.reserveRMB),
         NumberToString(100 * rate),
         IF pre.type = "full" THEN LabelFull
         ELSE LabelDeposit \o percent(pre.ratio),
         FixedText(toFixed2(amt)),
         IF p.depositPaid THEN LabelPaid ELSE LabelUnpaid,
         statusLabel(p.status),
         safeCSV(TextOf(p, "note")) >>

\* ExportCSVButton.handle: the text put into the file
ExportCSV(evt) ==
  LET rows == [i \in 1..Len(evt.participants) |-> ExportRow(evt, i)]
      lines == [k \in 1..(Len(rows) + 1) |->
                  Join(IF k = 1 THEN Headers ELSE rows[k - 1], ",")]
  IN  <<BOM>> \o Join(lines, "\n")

\* participants to export: names with a comma, a quote and a line feed in
\* them, amounts that fall half-way between two cents
CsvRows ==
  { Row(0, 1150, FALSE, "deposit", "active"),
    [Row(0, RMB(400), TRUE, "deposit", "fulfilled")
       EXCEPT !.name = <<"a", ",", "b">>],
    [Row(0, RMB(600), TRUE, "full", "cancelled")
       EXCEPT !.name = <<"q", "\"", "q">>],
    [Row(0, 50, FALSE, "deposit", "active")
       EXCEPT !.name = <<"a", "\n", "b">>] }

RECURSIVE CsvRowListsOfLen(_)
CsvRowListsOfLen(k) ==
  IF k = 0 THEN {<<>>}
  ELSE {Append(l, [r EXCEPT !.id = k]) :
          l \in CsvRowListsOfLen(k - 1), r \in CsvRows}

\* a call of safeCSV, or an export, about to be made
PendingCSV(op, text) ==
  [op |-> op, text |-> text, done |-> FALSE, result |-> <<>>]

InitCSV ==
  /\ \/ /\ \E k \in 0..MaxText : \E text \in TextsOfLen(k) :
             call = PendingCSV("safeCSV", text)
        /\ data = InitData
     \/ /\ call = PendingCSV("exportCSV", <<>>)
        /\ \E k \in 0..MaxRows : \E rows \in CsvRowListsOfLen(k) :
             data = [InitData EXCEPT !.events[1].participants = rows]
  /\ stats = Render(data)
  /\ storage = saveData(NoStorage, data)
  /\ nextId = 1

CallSafeCSV ==
  /\ call.op = "safeCSV" /\ ~call.done
  /\ call' = [call EXCEPT !.done = TRUE, !.result = safeCSV(call.text)]
  /\ UNCHANGED <<data, stats, nextId, storage>>

\* the "导出CSV" button of the event shown
ClickExportCSV ==
  /\ call.op = "exportCSV" /\ ~call.done
  /\ call' = [call EXCEPT !.done = TRUE,
                          !.result = ExportCSV(selectedEvent(data)[1])]
  /\ UNCHANGED <<data, stats, nextId, storage>>

NextCSV == CallSafeCSV \/ ClickExportCSV
SpecCSV == InitCSV /\ [][NextCSV]_vars

\* ParticipantTable.prepayOf(p): the rule for the budget the participant has
\* now, and the amount required, in 1/100000 RMB
prepayOf(p, evt) ==
  LET rule == mdtgPrepayOf(JSNumber(p.reserveRMB), evt.rules.mdtg)
  IN  [rule |-> rule, amt |-> p.reserveRMB * rule.ratio]

\* the cell of the table in the column "预付类型"
PrepayCell(p, evt) ==
  IF prepayOf(p, evt).rule.type = "full" THEN LabelFull
  ELSE LabelDeposit \o percent(prepayOf(p, evt).rule.ratio)

(***************************************************************************)
(* Properties of the resolvers (SpecResolve)                               *)
(***************************************************************************)
RateReturned == call.op = "mdtgRateOf" /\ call.done
PrepayReturned == call.op = "mdtgPrepayOf" /\ call.done
IsNumberArg == call.budgetRMB.t = "number" /\ ~call.budgetRMB.num.nan
ArgValue == call.budgetRMB.num.v
Deposit(r) == [type |-> "deposit", ratio |-> r]
Full == [type |-> "full", ratio |-> 100]

\* C1: with the default tiers mdtgRateOf returns 6.5 for 0 <= b < 300, 6.3
\* for 300 <= b < 500 and 6.0 for b >= 500, the boundaries being exact.
C1_DefaultRates ==
  (RateReturned /\ IsNumberArg /\ call.rules.tiers = DefaultTiers) =>
    /\ (0 <= ArgValue /\ ArgValue < RMB(300)) => call.rate = 65
    /\ (RMB(300) <= ArgValue /\ ArgValue < RMB(500)) => call.rate = 63
    /\ ArgValue >= RMB(500) => call.rate = 60

\* C1 witness: just below 300 RMB the default tiers gave 6.5
C1_Witness ==
  /\ RateReturned /\ call.rules.tiers = DefaultTiers
  /\ call.budgetRMB = JSNumber(RMB(300) - 1)
  /\ call.rate = 65

\* C2: with the default deposit policy mdtgPrepayOf returns deposit 0.3 for
\* b < 300, deposit 0.5 for 300 <= b < 500 and full 1.0 for b >= 500.
C2_DefaultPrepay ==
  (PrepayReturned /\ IsNumberArg
     /\ call.rules.depositPolicy = DefaultDepositPolicy) =>
    /\ ArgValue < RMB(300) => call.prepay = Deposit(30)
    /\ (RMB(300) <= ArgValue /\ ArgValue < RMB(500)) =>
         call.prepay = Deposit(50)
    /\ ArgValue >= RMB(500) => call.prepay = Full

\* C2 witness: exactly 300 RMB got the mid band's deposit of 0.5
C2_Witness ==
  /\ PrepayReturned /\ call.rules.depositPolicy = DefaultDepositPolicy
  /\ call.budgetRMB = JSNumber(RMB(300))
  /\ call.prepay = Deposit(50)

\* C3 (as claimed): a negative budget is clamped to 0 before the tier lookup,
\* so mdtgRateOf returns for it what it returns for budget 0.
C3_NegativeAsZero ==
  (RateReturned /\ IsNumberArg /\ ArgValue < 0) =>
    call.rate = mdtgRateOf(JSNumber(0), call.rules)

\* C4: for an absent or non-numeric budget (undefined, null, NaN, empty,
\* blank or malformed text) both resolvers return what they return for 0.
C4_NonNumericAsZero ==
  (call.done /\ call.budgetRMB \in NonNumericInputs) =>
    /\ call.op = "mdtgRateOf" =>
         call.rate = mdtgRateOf(JSNumber(0), call.rules)
    /\ call.op = "mdtgPrepayOf" =>
         call.prepay = mdtgPrepayOf(JSNumber(0), call.rules)

\* C4 witness: the text "400a" got the rate of budget 0, not that of 400
C4_Witness ==
  /\ RateReturned /\ call.rules.tiers = DefaultTiers
  /\ call.budgetRMB = JSString(<<"4", "0", "0", "a">>)
  /\ call.rate = 65

\* the tiers of the call that contain the (coerced) budget, as the claim
\* states the test
ClaimedMatches ==
  LET n == NumberOr0(call.budgetRMB)
      ts == call.rules.tiers
  IN  {i \in 1..Len(ts) :
         IF ts[i].max = <<>> THEN n >= ts[i].min
         ELSE ts[i].min <= n /\ n < ts[i].max[1]}

\* C5: mdtgRateOf scans the tiers in the order supplied and returns the rate
\* of the first one that matches, so of two overlapping tiers the earlier
\* one wins.
C5_FirstMatchWins ==
  (RateReturned /\ ClaimedMatches # {}) =>
    \E i \in ClaimedMatches :
      /\ \A j \in ClaimedMatches : i <= j
      /\ call.rate = call.rules.tiers[i].rate

\* C5 witness: two tiers listed out of order both contain the budget and
\* the rate of the one listed first was returned
C5_Witness ==
  /\ RateReturned
  /\ {1, 2} \subseteq ClaimedMatches
  /\ call.rules.tiers[1].min > call.rules.tiers[2].min
  /\ call.rate = call.rules.tiers[1].rate
  /\ call.rate # call.rules.tiers[2].rate

\* C6: when no tier matches mdtgRateOf returns the rate of the last tier,
\* and the default 6.0 when there is no tier; it always returns a rate.
C6_Fallback ==
  RateReturned =>
    LET ts == call.rules.tiers
    IN  /\ (ClaimedMatches = {} /\ ts # <<>>) => call.rate = ts[Len(ts)].rate
        /\ ts = <<>> => call.rate = 60
        /\ call.rate \in {ts[i].rate : i \in 1..Len(ts)} \cup {60}

\* C6 witness: the budget fell into a gap of a list of several tiers and the
\* last tier's rate, which is not the default, was returned
C6_Witness ==
  /\ RateReturned
  /\ ClaimedMatches = {}
  /\ Len(call.rules.tiers) >= 2
  /\ call.rate = call.rules.tiers[Len(call.rules.tiers)].rate
  /\ call.rate # 60

\* C7: mdtgPrepayOf tests the small band first, the mid band second, and
\* gives full payment at ratio 1.0 to every other budget, whatever the large
\* band is configured to be.
C7_BandOrder ==
  PrepayReturned =>
    LET n == NumberOr0(call.budgetRMB)
        dp == call.rules.depositPolicy
    IN  /\ n < dp.small.upTo => call.prepay = Deposit(dp.small.ratio)
        /\ (n >= dp.small.upTo /\ dp.mid.from <= n /\ n < dp.mid.to) =>
             call.prepay = Deposit(dp.mid.ratio)
        /\ (n >= dp.small.upTo /\ ~(dp.mid.from <= n /\ n < dp.mid.to)) =>
             call.prepay = Full

\* C7 witness: a budget in the gap between the small and the mid band, below
\* a large band configured with ratio 0.8, got full payment at 1.0
C7_Witness ==
  /\ PrepayReturned
  /\ LET n == NumberOr0(call.budgetRMB)
         dp == call.rules.depositPolicy
     IN  /\ dp.small.upTo <= n /\ n < dp.mid.from
         /\ n < dp.large.from /\ dp.large.ratio = 80
  /\ call.prepay = Full

(***************************************************************************)
(* Properties of calcStats (SpecStats)                                     *)
(***************************************************************************)
Shown == selectedEvent(data)[1]
ShownRows == Shown.participants

\* the sum of f over the rows with index in I, in no particular order
RECURSIVE SumOver(_, _)
SumOver(f, I) ==
  IF I = {} THEN 0
  ELSE LET i == CHOOSE k \in I : TRUE
       IN  f[i] + SumOver(f, I \ {i})

\* the required prepayment of a row, in 1/100000 RMB
Required(p) ==
  p.reserveRMB * mdtgPrepayOf(JSNumber(p.reserveRMB), Shown.rules.mdtg).ratio

\* C8: count is the number of participants of any status, activeCount the
\* number of those whose status is active, and activeCount <= count.
C8_Counts ==
  stats # <<>> =>
    /\ stats[1].count =
         Cardinality({ShownRows[i].id : i \in 1..Len(ShownRows)})
    /\ stats[1].activeCount =
         Cardinality({i \in 1..Len(ShownRows) :
                        ShownRows[i].status = "active"})
    /\ stats[1].activeCount <= stats[1].count

\* C8 witness: a fulfilled and a cancelled participant are both counted and
\* neither is active
C8_Witness ==
  /\ stats # <<>>
  /\ \E i, j \in 1..Len(ShownRows) :
       ShownRows[i].status = "fulfilled" /\ ShownRows[j].status = "cancelled"
  /\ stats[1].count = 2
  /\ stats[1].activeCount = 0

\* C9: totalReserveRMB is the sum of the budgets of all participants,
\* whatever their status, rounded to 2 decimal places (the nearest cent).
C9_TotalReserve ==
  stats # <<>> =>
    LET total == SumOver([i \in 1..Len(ShownRows) |-> ShownRows[i].reserveRMB],
                         1..Len(ShownRows))
        cents == stats[1].totalReserveRMB
    IN  10 * cents - 5 <= total /\ total <= 10 * cents + 5

\* C9 witness: a cancelled participant's budget is in the total, and the
\* total was rounded (400.006 shown as 400.01)
C9_Witness ==
  /\ stats # <<>>
  /\ \E i, j \in 1..Len(ShownRows) :
       /\ ShownRows[i].status = "cancelled"
       /\ ShownRows[i].reserveRMB = RMB(400)
       /\ ShownRows[j].status = "fulfilled"
       /\ ShownRows[j].reserveRMB = 6
  /\ stats[1].totalReserveRMB = 40001

\* collectedPrepayRMB is the rounded sum of the required prepayments of the
\* participants whose deposit flag is set
CollectedIsPaidSum ==
  stats # <<>> =>
    LET paid == {i \in 1..Len(ShownRows) : ShownRows[i].depositPaid}
        total == SumOver([i \in 1..Len(ShownRows) |-> Required(ShownRows[i])],
                         paid)
        cents == stats[1].collectedPrepayRMB
    IN  1000 * cents - 500 <= total /\ total <= 1000 * cents + 500

\* the step is the deposit toggle of row k of the event shown, whose rows
\* are rows before the step and rows2 after it
ToggledAt(k, rows, rows2) ==
  /\ k <= Len(rows) /\ k <= Len(rows2)
  /\ rows2[k].depositPaid # rows[k].depositPaid
  /\ data' = updateParticipant(data, Shown.id, rows[k].id,
               [depositPaid |-> ~rows[k].depositPaid])

\* what the toggle adds to the collected amount, in 1/100000 RMB: the new
\* value less the old one, and the required amount of the row with its sign
CollectedChange == 1000 * (stats'[1].collectedPrepayRMB
                             - stats[1].collectedPrepayRMB)
SignedRequired(p) == IF p.depositPaid THEN 0 - Required(p) ELSE Required(p)

\* every deposit toggle changes the collected amount by exactly the
\* required amount of the row toggled
ToggleChangesExactly ==
  (stats # <<>> /\ stats' # <<>>) =>
    LET rows == ShownRows
        rows2 == ShownRows'
    IN  \A k \in 1..MaxIds :
          ToggledAt(k, rows, rows2) =>
            CollectedChange = SignedRequired(rows[k])

\* every deposit toggle changes the collected amount by the required amount
\* of the row toggled to within less than a cent, and by exactly that amount
\* when it is a whole number of cents
ToggleChangesRounded ==
  (stats # <<>> /\ stats' # <<>>) =>
    LET rows == ShownRows
        rows2 == ShownRows'
    IN  \A k \in 1..MaxIds :
          ToggledAt(k, rows, rows2) =>
            /\ CollectedChange - SignedRequired(rows[k]) < 1000
            /\ SignedRequired(rows[k]) - CollectedChange < 1000
            /\ Required(rows[k]) % 1000 = 0 =>
                 CollectedChange = SignedRequired(rows[k])

C11_StatsFresh == stats = Render(data)

\* C11 witness: two participants were added, one was removed and the other
\* one's deposit flag was set; the statistics shown count the one row left
\* and its deposit
C11_Witness ==
  /\ nextId = 3
  /\ Len(ShownRows) = 1
  /\ ShownRows[1].depositPaid /\ ShownRows[1].reserveRMB = RMB(600)
  /\ stats = <<[ count |-> 1, activeCount |-> 1, totalReserveRMB |-> 60000,
                 collectedPrepayRMB |-> 60000 ]>>

\* C16 (as claimed): after any sequence of organizer operations (add form,
\* budget prompt, status, deposit flag, removal) the stored budget of every
\* participant is a non-negative number.
C16_BudgetsNonNegative ==
  stats # <<>> =>
    \A i \in 1..Len(ShownRows) : ShownRows[i].reserveRMB >= 0

C13_OrderFree ==
  (call.op = "calcStats" /\ call.ofReordered # <<>>) =>
    call.ofReordered = call.first

\* C15: the quorum progress is min(100, round(activeCount / threshold * 100))
\* with a zero or missing threshold replaced by the denominator 1; it is an
\* integer from 0 to 100; an event with no participant has count 0,
\* activeCount 0, totalReserveRMB 0, collectedPrepayRMB 0 and progress 0%.
C15_Progress ==
  (call.op = "ProgressBar" /\ call.pct # <<>>) =>
    LET c == call.first[1].activeCount
        h == call.evt.thresholds.headcount
        d == IF h.t # "number" \/ h.num.nan \/ h.num.v = 0 THEN 1
             ELSE h.num.v
        pct == call.pct[1]
    IN  /\ pct \in 0..100
        /\ \/ pct = 100 /\ 200 * c >= 199 * d
           \/ /\ pct < 100
              /\ (2 * pct - 1) * d <= 200 * c
              /\ 200 * c < (2 * pct + 1) * d
        /\ call.evt.participants = <<>> =>
             /\ call.first[1] = [ count |-> 0, activeCount |-> 0,
                                  totalReserveRMB |-> 0,
                                  collectedPrepayRMB |-> 0 ]
             /\ pct = 0

\* C15 witness: two active participants of three and no threshold at all:
\* the denominator is 1 and the progress is cut off at 100
C15_Witness ==
  /\ call.op = "ProgressBar" /\ call.pct = <<100>>
  /\ call.evt.thresholds.headcount = JSUndefined
  /\ Len(call.evt.participants) = 3
  /\ call.first[1].activeCount = 2

(***************************************************************************)
(* The scenario of three sign-ups (SpecScenario)                           *)
(***************************************************************************)
\* the default event with threshold 6 has three participants, all active,
\* added with the budgets 200, 400 and 600
ScenarioAdded ==
  /\ stats # <<>>
  /\ Shown.thresholds.headcount = JSNumber(6)
  /\ Shown.rules.mdtg = DEFAULT_MDTG_RULES
  /\ Len(ShownRows) = 3
  /\ {ShownRows[i].reserveRMB : i \in 1..3} = {RMB(200), RMB(400), RMB(600)}
  /\ \A i \in 1..3 : ShownRows[i].status = "active"

\* C14: with threshold 6, default rules and three active participants added
\* with budgets 200, 400 and 600, the rates are 6.5/6.3/6.0, the prepayments
\* deposit 0.3/deposit 0.5/full 1.0, the required amounts 60/200/600,
\* totalReserveRMB is 1200, activeCount is 3 and the progress is 50%.
C14_Scenario ==
  ScenarioAdded =>
    /\ \A i \in 1..3 :
         LET b == ShownRows[i].reserveRMB
             rate == mdtgRateOf(JSNumber(b), Shown.rules.mdtg)
             pre == mdtgPrepayOf(JSNumber(b), Shown.rules.mdtg)
         IN  /\ b = RMB(200) =>
                  /\ rate = 65 /\ pre = Deposit(30)
                  /\ b * pre.ratio = 100 * RMB(60)
             /\ b = RMB(400) =>
                  /\ rate = 63 /\ pre = Deposit(50)
                  /\ b * pre.ratio = 100 * RMB(200)
             /\ b = RMB(600) =>
                  /\ rate = 60 /\ pre = Full
                  /\ b * pre.ratio = 100 * RMB(600)
             /\ ShownRows[i].prepayType = pre.type
    /\ stats[1].totalReserveRMB = 120000
    /\ stats[1].activeCount = 3
    /\ QuorumProgress(stats[1], Shown) = 50

\* C14 witness: 200, 400 and 600 were added in this order (the last one
\* added is the first row); the total is 1200.00 and three are active
C14_Witness ==
  /\ ScenarioAdded
  /\ ShownRows[1].reserveRMB = RMB(600) /\ ShownRows[3].reserveRMB = RMB(200)
  /\ stats[1].totalReserveRMB = 120000 /\ stats[1].activeCount = 3
  /\ QuorumProgress(stats[1], Shown) = 50

(***************************************************************************)
(* Properties of the store (SpecStore)                                     *)
(***************************************************************************)
EventIdsOf(d) == {d.events[i].id : i \in 1..Len(d.events)}
RowIdsOf(rows) == {rows[k].id : k \in 1..Len(rows)}
RowIdsIn(d) ==
  UNION {RowIdsOf(d.events[i].participants) : i \in 1..Len(d.events)}

\* the events of d other than the one with the id, in the order of d
Others(d, id) ==
  LET Keep(e) == e.id # id
  IN  SelectSeq(d.events, Keep)

\* the step removes the event shown in the detail view
RemovesShown ==
  /\ call'.op = "removeEvent"
  /\ selectedEvent(data) # <<>>
  /\ selectedEvent(data)[1].id = call'.evtId

ReselectsFirst ==
  RemovesShown =>
    data'.selectedEventId =
      IF Others(data, call'.evtId) = <<>> THEN <<>>
      ELSE <<Others(data, call'.evtId)[1].id>>

\* C17: removeEvent(id) applied to the event currently selected leaves
\* selectedEventId equal to the id of the first event that remains in the
\* list, or null when none remains.
C17_ReselectFirst == [][ReselectsFirst]_vars

\* C17 witness: of two imported events the first, which was shown, was
\* removed and the other one is selected
C17_Witness ==
  /\ call = StoreCall("removeEvent", 11)
  /\ EventIdsOf(data) = {12}
  /\ data.selectedEventId = <<12>>

\* C18: in every store state reached by createEvent, select, updateEvent,
\* removeEvent and successful imports at most one event is selected; when
\* the list is not empty the detail view shows exactly one event, a member
\* of the list, also when selectedEventId is null or names no event; when
\* the list is empty no event is shown.
C18_OneShown ==
  /\ Cardinality({i \in 1..Len(data.events) :
                    <<data.events[i].id>> = data.selectedEventId}) <= 1
  /\ data.events # <<>> =>
       /\ Len(selectedEvent(data)) = 1
       /\ \E i \in 1..Len(data.events) :
            data.events[i] = selectedEvent(data)[1]
       /\ stats = <<calcStats(selectedEvent(data)[1])>>
  /\ data.events = <<>> => (selectedEvent(data) = <<>> /\ stats = <<>>)

\* C18 witness: an imported store whose selectedEventId names no event of
\* its list; the first event is shown
C18_Witness ==
  /\ call.op = "importJSON"
  /\ data.selectedEventId = <<99>>
  /\ EventIdsOf(data) = {11}
  /\ selectedEvent(data) = <<data.events[1]>>

RemovesWithRows ==
  call'.op = "removeEvent" =>
    LET id == call'.evtId
        at == {i \in 1..Len(data.events) : data.events[i].id = id}
        n == Len(data'.events)
    IN  /\ id \notin EventIdsOf(data')
        /\ \A i \in at :
             RowIdsOf(data.events[i].participants) \cap RowIdsIn(data') = {}
        /\ n = Len(data.events) - Cardinality(at)
        /\ \A i \in 1..n :
             data'.events[i] =
               data.events[i + Cardinality({k \in at : k <= i})]

\* C19: removeEvent(id) removes the event with the id and all of its
\* participants, none of which remains anywhere in the store; every other
\* event keeps its fields and participants and its place relative to the
\* others.
C19_RemoveCascades == [][RemovesWithRows]_vars

\* C19 witness: the second of two imported events was removed with its
\* participant; the first one still has its own participant
C19_Witness ==
  /\ call = StoreCall("removeEvent", 12)
  /\ data.events = <<Imported11>>
  /\ RowIdsIn(data) = {21}

WithoutRows(e) == [e EXCEPT !.participants = <<>>]

\* what a participant operation on event E may change: the participant
\* list of E alone
OnlyRowsOf(E) ==
  /\ data'.selectedEventId = data.selectedEventId
  /\ Len(data'.events) = Len(data.events)
  /\ \A i \in 1..Len(data.events) :
       \/ data'.events[i] = data.events[i]
       \/ /\ data.events[i].id = E
          /\ WithoutRows(data'.events[i]) = WithoutRows(data.events[i])

ParticipantFrame ==
  LET E == call'.evtId
      op == call'.op
      n == Len(data.events)
  IN  /\ op \in {"addParticipant", "updateParticipant", "removeParticipant"}
           => OnlyRowsOf(E)
      /\ op = "addParticipant" =>
           \A i \in 1..n :
             data.events[i].id = E =>
               /\ Len(data'.events[i].participants) =
                    Len(data.events[i].participants) + 1
               /\ Tail(data'.events[i].participants) =
                    data.events[i].participants
      /\ (op = "updateParticipant" /\ data' # data) =>
           \A pid \in ParticipantIds(data) :
             data' = updateParticipant(data, E, pid, [depositPaid |-> TRUE])
               => \A i \in 1..n :
                    LET rows == data.events[i].participants
                        rows2 == data'.events[i].participants
                    IN  /\ Len(rows2) = Len(rows)
                        /\ \A k \in 1..Len(rows) :
                             rows[k].id # pid => rows2[k] = rows[k]
                        /\ pid \notin RowIdsOf(rows) => rows2 = rows
      /\ (op = "removeParticipant" /\ data' # data) =>
           \A pid \in ParticipantIds(data) :
             data' = removeParticipant(data, E, pid)
               => \A i \in 1..n :
                    LET rows == data.events[i].participants
                        rows2 == data'.events[i].participants
                        Keep(p) == p.id # pid
                    IN  /\ data.events[i].id = E =>
                             rows2 = SelectSeq(rows, Keep)
                        /\ pid \notin RowIdsOf(rows) => rows2 = rows

\* C20: addParticipant, updateParticipant and removeParticipant on event E
\* change only the participant list of E: the other events, the other
\* fields of E and selectedEventId stay as they were; update and remove
\* touch only the participant with the id given; an event id or participant
\* id that matches nothing leaves the content of every event unchanged.
C20_ParticipantFrame == [][ParticipantFrame]_vars

\* C20 witness: the deposit flag of the participant of the first imported
\* event was set; the second event and its participant are as imported
C20_Witness ==
  /\ call = StoreCall("updateParticipant", 11)
  /\ Len(data.events) = 2
  /\ data.events[1] =
       [Imported11 EXCEPT !.participants[1].depositPaid = TRUE]
  /\ data.events[2] = Imported12


(***************************************************************************)
(* The order of the participant list (SpecOrder)                           *)
(***************************************************************************)
\* the ids of the participants of the event shown, in the order of the list
RowIdSeq(d) ==
  LET rows == selectedEvent(d)[1].participants
  IN  [k \in 1..Len(rows) |-> rows[k].id]

\* the sequence without its k-th element
Without(s, k) == SubSeq(s, 1, k - 1) \o SubSeq(s, k + 1, Len(s))

\* genId hands out growing ids here, so that the later sign-up has the
\* larger id
RecentFirst(ids) == \A j, k \in 1..Len(ids) : j < k => ids[j] > ids[k]

OrderKept ==
  LET ids == RowIdSeq(data)
      ids2 == RowIdSeq(data')
  IN  /\ nextId' # nextId => ids2 = <<nextId'>> \o ids
      /\ nextId' = nextId =>
           \/ ids2 = ids
           \/ \E k \in 1..Len(ids) : ids2 = Without(ids, k)
      /\ RecentFirst(ids2)

\* C21: after any sequence of addParticipant, updateParticipant and
\* removeParticipant on an event its participant list is ordered
\* most-recently-added first: an add puts the new participant at the head,
\* an update or a remove keeps the relative order of the participants that
\* remain.
C21_RecentFirst == [][OrderKept]_vars

\* C21 witness: of three sign-ups the second was removed and the first was
\* marked as paid; the last sign-up is still ahead of the first
C21_Witness ==
  /\ nextId = 4
  /\ RowIdSeq(data) = <<4, 2>>
  /\ ShownRows[2].depositPaid /\ ~ShownRows[1].depositPaid


(***************************************************************************)
(* The deposit flag, the stored prepayment type and the collected amount   *)
(* (SpecLedger)                                                            *)
(***************************************************************************)
RowsOf(d) == selectedEvent(d)[1].participants

\* the participant has the fields of p but for the deposit flag, which is
\* the opposite one
Toggled(p, p2) == p2 = [p EXCEPT !.depositPaid = ~p.depositPaid]

PaidOnlyToggled ==
  LET rows == RowsOf(data)
      rows2 == RowsOf(data')
  IN  \A k2 \in 1..Len(rows2) :
        LET p2 == rows2[k2]
            was == {k \in 1..Len(rows) : rows[k].id = p2.id}
        IN  /\ was = {} => ~p2.depositPaid
            /\ \A k \in was :
                 LET p == rows[k]
                 IN  /\ (p2.reserveRMB # p.reserveRMB \/ p2.status # p.status)
                          => p2.depositPaid = p.depositPaid
                     /\ p2.depositPaid # p.depositPaid =>
                          /\ Toggled(p, p2)
                          /\ Len(rows2) = Len(rows)
                          /\ \A j \in 1..Len(rows) : j # k => rows2[j] = rows[j]

\* C22: a participant is created with depositPaid = false, and depositPaid
\* changes only through the deposit toggle: an edit of the budget or of the
\* status leaves it as it was, also when the edit changes the prepayment
\* required, and a toggle leaves the budget, the status and every other
\* participant as they were.
C22_PaidOnlyToggled == [][PaidOnlyToggled]_vars

\* C22 witness: a participant who signed up with 600 (paid in full) and now
\* has budget 400 (a deposit of 200 required) is marked as paid
C22_Witness ==
  \E k \in 1..Len(ShownRows) :
    /\ ShownRows[k].depositPaid
    /\ ShownRows[k].reserveRMB = RMB(400)
    /\ ShownRows[k].prepayType = "full"
    /\ mdtgPrepayOf(JSNumber(RMB(400)), Shown.rules.mdtg).type = "deposit"
    /\ stats[1].collectedPrepayRMB >= 200


(***************************************************************************)
(* Import of a backup (SpecStore)                                          *)
(***************************************************************************)
\* the files that carry an events field
WithEvents == {f \in ImportFiles : f.parses /\ f.events # <<>>}

ImportRejects ==
  /\ call'.op = "alert" => (data' = data /\ stats' = stats)
  /\ call'.op = "importJSON" =>
       \E f \in WithEvents :
         data' = [events |-> f.events[1], selectedEventId |-> f.selectedEventId]

\* C23: an import of data that cannot be parsed or that has no top-level
\* events field ends in an alert and leaves the store exactly as it was;
\* only data that carries an events field replaces the store.
C23_ImportRejects == [][ImportRejects]_vars

\* C23 witness: a backup of two events was imported, then a file was
\* rejected; the store still holds the two events
C23_Witness ==
  /\ call.op = "alert"
  /\ data.events = <<Imported11, Imported12>>


(***************************************************************************)
(* Persistence (SpecFailure, SpecPersist)                                  *)
(***************************************************************************)
\* the store of a session that found no stored copy: one default event with
\* the id, selected by the effect of the first render
DefaultStore(id) == [events |-> <<DEFAULT_EVENT(id)>>, selectedEventId |-> <<id>>]

FailuresNotFatal ==
  /\ (call'.op = "loadData" /\ (storage.fails \/ storage.item = <<Garbage>>))
       => /\ loadData(storage) = <<>>
          /\ data' = DefaultStore(nextId')
          /\ Len(data'.events) = 1
          /\ stats' = <<calcStats(DEFAULT_EVENT(nextId'))>>
  /\ (call'.op # "none" /\ storage.fails) =>
       /\ storage' = storage
       /\ call'.op = "select" => data' = select(data, call'.evtId)
       /\ call'.op = "updateEvent" =>
            data' = updateEvent(data, call'.evtId, [name |-> <<"R">>])
       /\ call'.op = "createEvent" =>
            /\ Len(data'.events) = Len(data.events) + 1
            /\ Tail(data'.events) = data.events
            /\ data'.selectedEventId = <<call'.evtId>>

\* C24: storage failures are never fatal: when reading or parsing the stored
\* data fails, loadData returns null and the session starts with the default
\* store of exactly one default event; when writing fails, saveData leaves
\* localStorage as it was, the store in memory has the value the operation
\* gave it, and later operations work on it.
C24_FailuresNotFatal == [][FailuresNotFatal]_vars

\* C24 witness: the page was loaded while localStorage failed and started
\* with a new default event; that event was then renamed in memory while
\* the stored copy is still the store of the first session
C24_Witness ==
  /\ storage.fails
  /\ call = StoreCall("updateEvent", 2)
  /\ data = [DefaultStore(2) EXCEPT !.events[1].name = <<"R">>]
  /\ storage.item = <<JSONstringify(InitData)>>


(***************************************************************************)
(* Properties of the CSV export (SpecCSV)                                  *)
(***************************************************************************)
Quoted(text) ==
  <<"\"">> \o ReplaceAll(text, "\"", <<"\"", "\"">>) \o <<"\"">>

NeedsQuotes(text) ==
  \E i \in 1..Len(text) : text[i] \in {",", "\"", "\n"}

\* C25: safeCSV returns the text unchanged when it holds no comma, no double
\* quote and no line feed, and otherwise the text in double quotes with
\* every double quote in it doubled; a text with a line feed and no comma or
\* quote is returned in double quotes.
C25_SafeCSV ==
  (call.op = "safeCSV" /\ call.done) =>
    call.result = IF NeedsQuotes(call.text) THEN Quoted(call.text)
                  ELSE call.text


\* position i of the text s is outside double quotes: the number of double
\* quotes before it is even
Unquoted(s, i) == Cardinality({j \in 1..(i - 1) : s[j] = "\""}) % 2 = 0

\* the pieces of s between the characters c that stand outside double quotes
SplitCSV(s, c) ==
  LET seps == {i \in 1..Len(s) : s[i] = c /\ Unquoted(s, i)}
      sep(k) == IF k = 0 THEN 0
                ELSE IF k > Cardinality(seps) THEN Len(s) + 1
                ELSE CHOOSE i \in seps :
                       Cardinality({j \in seps : j < i}) = k - 1
  IN  [k \in 1..(Cardinality(seps) + 1) |->
         SubSeq(s, sep(k - 1) + 1, sep(k) - 1)]

\* every doubled double quote of s made one
RECURSIVE Undouble(_)
Undouble(s) ==
  IF s = <<>> THEN <<>>
  ELSE IF Len(s) >= 2 /\ s[1] = "\"" /\ s[2] = "\""
       THEN <<"\"">> \o Undouble(SubSeq(s, 3, Len(s)))
       ELSE <<s[1]>> \o Undouble(Tail(s))

\* the text a field of a CSV record stands for
FieldText(f) ==
  IF Len(f) >= 2 /\ f[1] = "\"" /\ f[Len(f)] = "\""
  THEN Undouble(SubSeq(f, 2, Len(f) - 1))
  ELSE f

\* the records of a CSV text read back: records are cut at line feeds and
\* fields at commas outside double quotes
ParseCSV(s) ==
  LET lines == SplitCSV(s, "\n")
  IN  [r \in 1..Len(lines) |->
         LET fs == SplitCSV(lines[r], ",")
         IN  [k \in 1..Len(fs) |-> FieldText(fs[k])]]

\* the type and the ratio, in hundredths, that a cell of the prepayment
\* column stands for
DecodePrepay(cell) ==
  IF cell = LabelFull THEN <<[type |-> "full", ratio |-> 100]>>
  ELSE IF /\ Len(cell) > Len(LabelDeposit) + 1
          /\ SubSeq(cell, 1, Len(LabelDeposit)) = LabelDeposit
          /\ cell[Len(cell)] = "%"
          /\ ~StringToNumber(SubSeq(cell, Len(LabelDeposit) + 1,
                                    Len(cell) - 1)).nan
  THEN <<[type |-> "deposit",
          ratio |-> StringToNumber(SubSeq(cell, Len(LabelDeposit) + 1,
                                          Len(cell) - 1)).v \div 1000]>>
  ELSE <<>>

\* the row read back is the row of participant i of the event: its number,
\* the rate, the prepayment type and ratio of the resolvers for the stored
\* budget, and budget * ratio to the nearest cent
RowReadBack(cells, evt, i) ==
  LET p == evt.participants[i]
      pre == mdtgPrepayOf(JSNumber(p.reserveRMB), evt.rules.mdtg)
  IN  /\ Len(cells) = 11
      /\ cells[1] = NatText(i)
      /\ StringToNumber(cells[5]) = Num(p.reserveRMB)
      /\ StringToNumber(cells[6])
           = Num(100 * mdtgRateOf(JSNumber(p.reserveRMB), evt.rules.mdtg))
      /\ DecodePrepay(cells[7]) = <<[type |-> pre.type, ratio |-> pre.ratio]>>
      /\ ~StringToNumber(cells[8]).nan
      /\ LET diff == 100 * StringToNumber(cells[8]).v - p.reserveRMB * pre.ratio
         IN  diff <= 500 /\ 0 - 500 <= diff

ExportReadBack(content, evt) ==
  LET recs == ParseCSV(Tail(content))
  IN  /\ Len(recs) = Len(evt.participants) + 1
      /\ \A i \in 1..Len(evt.participants) : RowReadBack(recs[i + 1], evt, i)

\* C26: the export of an event has one row for each participant, in the
\* order of the participants, and the numbers and labels read back from a
\* row are the rate, the prepayment type and ratio the resolvers give for
\* the participant's stored budget, and budget * ratio rounded to two
\* decimal places.
C26_ExportReadBack ==
  (call.op = "exportCSV" /\ call.done) =>
    ExportReadBack(call.result, selectedEvent(data)[1])



(***************************************************************************)
(* The selection after any removal (SpecStore)                             *)
(***************************************************************************)
SelectsFirstLeft ==
  call'.op = "removeEvent" =>
    /\ call'.was = data.selectedEventId
    /\ data'.selectedEventId =
         IF Others(data, call'.evtId) = <<>> THEN <<>>
         ELSE <<Others(data, call'.evtId)[1].id>>

\* C27: removeEvent(id) sets selectedEventId to the id of the first event
\* that remains, or to null when none remains, whichever event is removed;
\* removing an event that is not the selected one does not keep the
\* selection.
C27_SelectsFirstLeft == [][SelectsFirstLeft]_vars

\* C27 witness: event 12 was selected, event 11 was removed, event 12 is
\* still in the list and the selection has moved to another event
C27_Witness ==
  /\ call.op = "removeEvent"
  /\ call.evtId = 11
  /\ call.was = <<12>>
  /\ 12 \in EventIdsOf(data)
  /\ data.selectedEventId # <<>>
  /\ data.selectedEventId # <<12>>
  /\ data.selectedEventId[1] = data.events[1].id


(***************************************************************************)
(* The stored copy and the store in memory (SpecPersist)                   *)
(***************************************************************************)
\* C28: every change of the store (events created, renamed, removed,
\* participants added, changed, removed, a selection, an import that
\* succeeds) is followed by saveData with the new store, so that with
\* localStorage working the stored copy is the store in memory, and
\* loadData on loading the page again returns exactly that store.
C28_PersistedIsStore ==
  /\ ~storage.fails
  /\ storage.item = <<JSONstringify(data)>>
  /\ loadData(storage) = <<data>>

\* C28 witness: two events were imported, the second was selected and given
\* a participant, and the page was loaded again: the session starts with
\* that store
C28_Witness ==
  /\ call = StoreCall("loadData", 0)
  /\ EventIdsOf(data) = {11, 12}
  /\ data.selectedEventId = <<12>>
  /\ \E i \in 1..Len(data.events) :
       data.events[i].id = 12 /\ data.events[i].participants # <<>>
  /\ loadData(storage) = <<data>>


(***************************************************************************)
(* The stored prepayment type (SpecLedger)                                 *)
(***************************************************************************)
TypeNow(p) == mdtgPrepayOf(JSNumber(p.reserveRMB), Shown.rules.mdtg).type

\* a new participant has the prepayment type of its budget; a participant
\* that was there keeps its stored type, and when its budget changes it
\* differs in nothing but reserveRMB and no other participant changes
BudgetEditFrame ==
  LET rows == RowsOf(data)
      rows2 == RowsOf(data')
  IN  \A k2 \in 1..Len(rows2) :
        LET p2 == rows2[k2]
            was == {k \in 1..Len(rows) : rows[k].id = p2.id}
        IN  /\ was = {} =>
                 p2.prepayType =
                   mdtgPrepayOf(JSNumber(p2.reserveRMB),
                                selectedEvent(data')[1].rules.mdtg).type
            /\ \A k \in was :
                 LET p == rows[k]
                 IN  /\ p2.prepayType = p.prepayType
                     /\ p2.reserveRMB # p.reserveRMB =>
                          /\ p2 = [p EXCEPT !.reserveRMB = p2.reserveRMB]
                          /\ Len(rows2) = Len(rows)
                          /\ \A j \in 1..Len(rows) : j # k => rows2[j] = rows[j]

\* the table, the export and the statistics give the type and the ratio for
\* the budget a participant has now
ShownRecomputed ==
  /\ \A k \in 1..Len(ShownRows) :
       DecodePrepay(PrepayCell(ShownRows[k], Shown))
         = <<mdtgPrepayOf(JSNumber(ShownRows[k].reserveRMB), Shown.rules.mdtg)>>
  /\ ExportReadBack(ExportCSV(Shown), Shown)
  /\ CollectedIsPaidSum

\* C29: a budget edit changes only reserveRMB of the participant it is
\* made on; the prepayType stored when the participant was added is never
\* computed again, while the table, the CSV export and calcStats use the
\* type and ratio computed from the budget of the moment.
C29_StoredTypeStale == [][BudgetEditFrame]_vars /\ []ShownRecomputed

\* C29 witness: a participant added with budget 600 has the stored type
\* "full"; with the budget edited to 0.004 the table shows a deposit
C29_Witness ==
  \E k \in 1..Len(ShownRows) :
    /\ ShownRows[k].prepayType = "full"
    /\ ShownRows[k].reserveRMB = 4
    /\ TypeNow(ShownRows[k]) = "deposit"
    /\ TypeNow(ShownRows[k]) # ShownRows[k].prepayType
    /\ SubSeq(PrepayCell(ShownRows[k], Shown), 1, Len(LabelDeposit))
         = LabelDeposit


(***************************************************************************)
(* The collected amount and the sum of the budgets (SpecLedger)            *)
(***************************************************************************)
\* every participant with a budget other than 0 is marked as paid and has
\* the ratio 1
AllPaidInFull ==
  \A k \in 1..Len(ShownRows) :
    ShownRows[k].reserveRMB # 0 =>
      /\ ShownRows[k].depositPaid
      /\ mdtgPrepayOf(JSNumber(ShownRows[k].reserveRMB),
                      Shown.rules.mdtg).ratio = 100

\* the budgets are not negative and the ratios lie between 0 and 1
BudgetsAndRatiosInRange ==
  \A k \in 1..Len(ShownRows) :
    /\ ShownRows[k].reserveRMB >= 0
    /\ mdtgPrepayOf(JSNumber(ShownRows[k].reserveRMB),
                    Shown.rules.mdtg).ratio \in 0..100

\* every budget and every required amount is a whole number of cents
WholeCents ==
  \A k \in 1..Len(ShownRows) :
    /\ ShownRows[k].reserveRMB % 10 = 0
    /\ Required(ShownRows[k]) % 1000 = 0

CollectedWithinTotal ==
  /\ 0 <= stats[1].collectedPrepayRMB
  /\ stats[1].collectedPrepayRMB <= stats[1].totalReserveRMB

\* C30 (as claimed): 0 <= collectedPrepayRMB <= totalReserveRMB, and the two
\* are equal exactly when every participant with a budget other than 0 is
\* marked as paid and has the ratio 1.
C30_EqualExactlyWhen ==
  (stats # <<>> /\ BudgetsAndRatiosInRange) =>
    /\ CollectedWithinTotal
    /\ (stats[1].collectedPrepayRMB = stats[1].totalReserveRMB)
         <=> AllPaidInFull

\* C30 (amended): 0 <= collectedPrepayRMB <= totalReserveRMB; the two are
\* equal whenever every participant with a budget other than 0 is marked as
\* paid and has the ratio 1, and only then when every budget and every
\* required amount is a whole number of cents.
C30_EqualWhenever ==
  (stats # <<>> /\ BudgetsAndRatiosInRange) =>
    /\ CollectedWithinTotal
    /\ AllPaidInFull =>
         stats[1].collectedPrepayRMB = stats[1].totalReserveRMB
    /\ (WholeCents
          /\ stats[1].collectedPrepayRMB = stats[1].totalReserveRMB)
         => AllPaidInFull

\* C30 witness: a participant with budget 600 has paid in full, another one
\* with budget 0.004 has not paid, and both totals are 600.00
C30_Witness ==
  /\ stats # <<>>
  /\ \E k \in 1..Len(ShownRows) :
       ShownRows[k].reserveRMB = RMB(600) /\ ShownRows[k].depositPaid
  /\ \E k \in 1..Len(ShownRows) :
       ShownRows[k].reserveRMB = 4 /\ ~ShownRows[k].depositPaid
  /\ stats[1].totalReserveRMB = 60000
  /\ stats[1].collectedPrepayRMB = 60000

=============================================================================
